---- MODULE Spec2Model ----
(***************************************************************************)
(* Model of backend/services/text_overlay.py (TextOverlayService): the     *)
(* font resolver with its cache, dynamic font sizing, greedy wrapping,     *)
(* anchor placement and clamping, the shadow/stroke/fill draw passes, the  *)
(* gradient band, and alpha compositing.                                   *)
(*                                                                         *)
(* Abstractions (Pillow is a library, not part of the repository):         *)
(*  - a str is a sequence of tokens: n > 0 is a run of n non-whitespace    *)
(*    characters, 0 is one space, -1 is one "\n";                          *)
(*  - a font measures every character CharW(font) wide and LineH(font)     *)
(*    high; a glyph inks its whole cell; multi-line spacing is 4;          *)
(*  - an image is its size, a synthetic base raster and the layers         *)
(*    composited on it; pixels are computed on demand;                     *)
(*  - floats are IEEE doubles: int(x * c) and the gradient alpha are       *)
(*    computed by integer arithmetic that reproduces the rounding.         *)
(***************************************************************************)
EXTENDS Integers, Sequences, FiniteSets, TLC

\* ------------------------------------------------------------- bounds
\* The longest text, in tokens, and the most keys the font cache may hold.
MaxTokens == 5
MaxCacheKeys == 1

\* The add_text calls in flight at once on one service, and the most cache
\* keys those calls may involve.
NumThreads == 2

MaxSharedKeys == 2

\* The longest list of configurations given to add_multiple_texts.
MaxTexts == 2

\* Training tasks in flight at once, and the rows ever inserted into the
\* face_models table.
NumTasks == 2

MaxRows == 2

\* The tallest image of the requests that vary the height row by row.
MaxHeight == 320

\* The tallest gradient band of the requests that vary the band row by row.
MaxBand == 32

\* An optional argument is None or Some(v); an absent name is "none".
None == <<>>

Some(v) == <<v>>

\* ------------------------------------------------------ float helpers
Abs(a) == IF a < 0 THEN -a ELSE a

Max2(a, b) == IF a >= b THEN a ELSE b

Min2(a, b) == IF a <= b THEN a ELSE b

RECURSIVE Pow2(_)
Pow2(k) == IF k <= 0 THEN 1 ELSE 2 * Pow2(k - 1)

\* floor(log2 m) for m >= 1
RECURSIVE Log2Floor(_)
Log2Floor(m) == IF m < 2 THEN 0 ELSE 1 + Log2Floor(m \div 2)

\* ceil(log2 m) for m >= 1
RECURSIVE Log2Ceil(_)
Log2Ceil(m) == IF m <= 1 THEN 0 ELSE 1 + Log2Ceil((m + 1) \div 2)

\* Python's int() of the rational a / b, b > 0: truncation toward zero.
TruncDiv(a, b) == IF a >= 0 THEN a \div b ELSE -((-a) \div b)

\* A ratio is [n, d] standing for the double nearest to n / d. RoundErr is
\* how far that double lies BELOW n / d, relative to n / d, in units of
\* 2^-53, as <<num, den>>; <<0, 1>> when the double is not below n / d, or
\* so little below that x * c still rounds to the exact integer product.
RoundErr(r) ==
    IF r.n * 10 = 7 * r.d \/ r.n * 100 = 35 * r.d THEN <<4, 7>> ELSE <<0, 1>>

\* int(x * c) for an integer x >= 0 and a ratio c >= 0: the product is
\* rounded to a double and then truncated. When x * n / d is an integer m
\* and the double c lies below n / d, the product lies below m and rounds
\* to m only if it is within half a spacing of m.
IntMulPos(x, r) ==
    LET num == x * r.n
        m == num \div r.d
        e == RoundErr(r)
    IN  IF num % r.d # 0 \/ num = 0 THEN m
        ELSE IF e[1] * m > e[2] * Pow2(Log2Floor(m)) THEN m - 1
        ELSE m

\* int(x * c) in exact arithmetic, as if the double c were n / d itself.
IntMulExact(x, r) == TruncDiv(x * r.n, r.d)

\* int(x * c) for an integer x >= 0 and any modelled ratio c.
IntMul(x, r) ==
    IF r.n >= 0 THEN IntMulPos(x, r) ELSE -IntMulPos(x, [n |-> -r.n, d |-> r.d])

\* (y * 2^k) mod g
RECURSIVE ModPow2(_, _, _)
ModPow2(y, k, g) == IF k <= 0 THEN y % g ELSE (2 * ModPow2(y, k - 1, g)) % g

\* The binade of y / g for 0 < y < g: the least s >= 1 with y * 2^s >= g.
RECURSIVE Binade(_, _)
Binade(y, g) == IF 2 * y >= g THEN 1 ELSE 1 + Binade(2 * y, g)

\* The double y / g is (y * 2^k + DivAdj) / g * 2^-k with k = 52 + Binade:
\* DivAdj is the numerator's rounding adjustment (round to nearest, ties to
\* even), negative when the quotient was rounded down.
DivAdj(y, g) ==
    LET k == 52 + Binade(y, g)
        rem == ModPow2(y, k, g)
        qbit == (2 * ModPow2(y, k - 1, g)) \div g
    IN  IF 2 * rem < g THEN -rem
        ELSE IF 2 * rem > g THEN g - rem
        ELSE IF qbit % 2 = 0 THEN -rem ELSE g - rem

\* Whether a product that lies below the integer m by (P/2) * en / (g * 2^k)
\* still rounds to m (k = 52 + s).
RoundsUpTo(m, P, en, g, s) ==
    (2 * P * en + g - 1) \div g <= Pow2(Log2Ceil(m) + s)

\* round(255 * opacity * (y / gradient_height)): the nearest integer in
\* place of the truncation.
AlphaBottomRounded(P, y, g) ==
    (IF P >= 0 THEN 1 ELSE -1) * ((Abs(P) * y + g) \div (2 * g))

\* int(255 * opacity * (y / gradient_height)) where 255 * opacity = P / 2
\* exactly (P an integer); text_overlay.py line 360.
AlphaBottom(P, y, g) ==
    LET sg == IF P >= 0 THEN 1 ELSE -1
        Pa == Abs(P)
        num == Pa * y
        m == num \div (2 * g)
    IN  IF num % (2 * g) # 0 \/ m = 0 THEN sg * m
        ELSE LET rp == DivAdj(y, g)
             IN  IF rp >= 0 \/ RoundsUpTo(m, Pa, -rp, g, Binade(y, g))
                 THEN sg * m ELSE sg * (m - 1)

\* The rounding adjustment of the double 1 - t for the double t = y / g, in
\* units of 2^-k (k = 52 + Binade(y, g)): 1 - t has more than 53 bits when
\* t < 1/2, and its low j bits are rounded away.
SubAdj(y, g, rp) ==
    LET s == Binade(y, g)
        a == Binade(g - y, g)
        j == s - a
        R == ModPow2(y, 52 + s - (j + 1), g)
        qlow == (R * Pow2(j + 1)) \div g
        m1low == (qlow + (IF rp > 0 THEN 1 ELSE 0)) % Pow2(j + 1)
        Nlow == (Pow2(j + 1) - m1low) % Pow2(j + 1)
        low == Nlow % Pow2(j)
        bitj == Nlow \div Pow2(j)
        half == Pow2(j - 1)
    IN  IF j <= 0 THEN 0
        ELSE IF low < half THEN -low
        ELSE IF low > half THEN Pow2(j) - low
        ELSE IF bitj = 0 THEN -low ELSE Pow2(j) - low

\* int(255 * opacity * (1 - y / gradient_height)); text_overlay.py line 363.
AlphaTop(P, y, g) ==
    LET sg == IF P >= 0 THEN 1 ELSE -1
        Pa == Abs(P)
        num == Pa * (g - y)
        m == num \div (2 * g)
    IN  IF num % (2 * g) # 0 \/ m = 0 \/ y = 0 THEN sg * m
        ELSE LET rp == DivAdj(y, g)
                 en == SubAdj(y, g, rp) * g - rp
             IN  IF en >= 0 \/ RoundsUpTo(m, Pa, -en, g, Binade(y, g))
                 THEN sg * m ELSE sg * (m - 1)

\* ------------------------------------------------------------ presets
\* FONT_PRESETS: family followed by the fallbacks.
FONT_PRESETS ==
    [impact |-> [family |-> "Impact",
                 fallbacks |-> <<"Arial Black", "Helvetica Bold", "DejaVuSans-Bold">>],
     modern |-> [family |-> "Montserrat",
                 fallbacks |-> <<"Arial", "Helvetica", "DejaVuSans">>],
     dramatic |-> [family |-> "Bebas Neue",
                   fallbacks |-> <<"Impact", "Arial Black", "DejaVuSans-Bold">>],
     clean |-> [family |-> "Roboto",
                fallbacks |-> <<"Arial", "Helvetica", "DejaVuSans">>]]

\* A hex colour is the sequence of its characters.
Hex(a, b, c, d, e, f) == <<"#", a, b, c, d, e, f>>

COLOR_PRESETS ==
    [white_shadow |-> [fill |-> Hex("F","F","F","F","F","F"),
                       stroke |-> Hex("0","0","0","0","0","0"),
                       shadow |-> Hex("0","0","0","0","0","0")],
     yellow_pop |-> [fill |-> Hex("F","F","F","F","0","0"),
                     stroke |-> Hex("0","0","0","0","0","0"),
                     shadow |-> Hex("0","0","0","0","0","0")],
     red_alert |-> [fill |-> Hex("F","F","0","0","0","0"),
                    stroke |-> Hex("F","F","F","F","F","F"),
                    shadow |-> Hex("0","0","0","0","0","0")],
     blue_trust |-> [fill |-> Hex("0","0","B","F","F","F"),
                     stroke |-> Hex("0","0","0","0","0","0"),
                     shadow |-> Hex("0","0","0","0","0","0")],
     green_success |-> [fill |-> Hex("0","0","F","F","0","0"),
                        stroke |-> Hex("0","0","0","0","0","0"),
                        shadow |-> Hex("0","0","0","0","0","0")]]

Ratio(n, d) == [n |-> n, d |-> d]

POSITION_PRESETS ==
    [top_left |-> <<Ratio(5, 100), Ratio(1, 10)>>,
     top_center |-> <<Ratio(1, 2), Ratio(1, 10)>>,
     top_right |-> <<Ratio(95, 100), Ratio(1, 10)>>,
     center |-> <<Ratio(1, 2), Ratio(1, 2)>>,
     bottom_left |-> <<Ratio(5, 100), Ratio(85, 100)>>,
     bottom_center |-> <<Ratio(1, 2), Ratio(85, 100)>>,
     bottom_right |-> <<Ratio(95, 100), Ratio(85, 100)>>]

\* dict.get(key, default)
DictGet(dict, key, default) == IF key \in DOMAIN dict THEN dict[key] ELSE default

HexDigit ==
    [c \in {"0","1","2","3","4","5","6","7","8","9","A","B","C","D","E","F"} |->
        CASE c = "0" -> 0 [] c = "1" -> 1 [] c = "2" -> 2 [] c = "3" -> 3
          [] c = "4" -> 4 [] c = "5" -> 5 [] c = "6" -> 6 [] c = "7" -> 7
          [] c = "8" -> 8 [] c = "9" -> 9 [] c = "A" -> 10 [] c = "B" -> 11
          [] c = "C" -> 12 [] c = "D" -> 13 [] c = "E" -> 14 [] c = "F" -> 15]

\* str.lstrip("#")
RECURSIVE LStripHash(_)
LStripHash(h) == IF h # <<>> /\ Head(h) = "#" THEN LStripHash(Tail(h)) ELSE h

\* _hex_to_rgb
hex_to_rgb(hex_color) ==
    LET h == LStripHash(hex_color)
    IN  [i \in 1..3 |-> 16 * HexDigit[h[2 * i - 1]] + HexDigit[h[2 * i]]]

\* -------------------------------------------------------------- fonts
\* The file system a call sees: valid and corrupt are files <<family, ext>>
\* present in fonts_dir (loadable, not loadable), system the names
\* ImageFont.truetype finds among the system fonts, dejavu whether
\* "DejaVuSans-Bold.ttf" is found there.
NoFont == [family |-> "none", source |-> "none", size |-> 0]

DefaultFont == [family |-> "load_default", source |-> "builtin", size |-> 0]

\* ImageFont.truetype(path, size) on a file of fonts_dir; a size <= 0 raises.
TruetypeFile(fs, name, ext, size) == <<name, ext>> \in fs.valid /\ size > 0

\* ImageFont.truetype(font_name, size) resolved among the system fonts.
TruetypeSystem(fs, name, size) ==
    /\ size > 0
    /\ \/ name \in fs.system
       \/ name = "DejaVuSans-Bold" /\ fs.dejavu

Exists(fs, name, ext) == <<name, ext>> \in fs.valid \cup fs.corrupt

\* The inner loop over [".ttf", ".otf"] (lines 104-111): the font of the
\* first extension that exists and loads, and the loads attempted.
CustomLoad(fs, name, size) ==
    LET try(ext) == [family |-> name, where |-> ext, ok |-> TruetypeFile(fs, name, ext, size)]
        t1 == IF Exists(fs, name, ".ttf") THEN <<try(".ttf")>> ELSE <<>>
        ok1 == t1 # <<>> /\ t1[1].ok
        t2 == IF ~ok1 /\ Exists(fs, name, ".otf") THEN <<try(".otf")>> ELSE <<>>
        ok2 == t2 # <<>> /\ t2[1].ok
    IN  [font |-> IF ok1 THEN [family |-> name, source |-> ".ttf", size |-> size]
                  ELSE IF ok2 THEN [family |-> name, source |-> ".otf", size |-> size]
                  ELSE NoFont,
         loads |-> t1 \o t2]

\* The loop over font_names (lines 101-119), from candidate i on, with the
\* font found so far. A font loaded from fonts_dir ends only the inner loop:
\* the outer loop goes on to the next candidate; a system font breaks it.
RECURSIVE CandidateLoop(_, _, _, _, _, _)
CandidateLoop(fs, names, i, size, font, loads) ==
    IF i > Len(names) THEN [font |-> font, loads |-> loads]
    ELSE LET c == CustomLoad(fs, names[i], size)
             font1 == IF c.font # NoFont THEN c.font ELSE font
             sysok == TruetypeSystem(fs, names[i], size)
             systry == [family |-> names[i], where |-> "system", ok |-> sysok]
         IN  IF font1 = NoFont
             THEN IF sysok
                  THEN [font |-> [family |-> names[i], source |-> "system", size |-> size],
                        loads |-> loads \o c.loads \o <<systry>>]
                  ELSE CandidateLoop(fs, names, i + 1, size, NoFont,
                                     loads \o c.loads \o <<systry>>)
             ELSE CandidateLoop(fs, names, i + 1, size, font1, loads \o c.loads)

\* The fallback without its try/except: a failed DejaVuSans-Bold.ttf load
\* propagates instead of reaching load_default().
FallbackLoadUnguarded(fs, size, r) ==
    IF r.font # NoFont THEN [raised |-> FALSE, font |-> r.font, loads |-> r.loads]
    ELSE LET ok == fs.dejavu /\ size > 0
         IN  [raised |-> ~ok,
              font |-> IF ok THEN [family |-> "DejaVuSans-Bold.ttf", source |-> "system",
                                   size |-> size]
                       ELSE NoFont,
              loads |-> r.loads \o <<[family |-> "DejaVuSans-Bold.ttf",
                                      where |-> "system", ok |-> ok]>>]

\* Lines 121-126: the DejaVuSans-Bold.ttf attempt, then load_default().
FallbackLoad(fs, size, r) ==
    IF r.font # NoFont THEN [raised |-> FALSE, font |-> r.font, loads |-> r.loads]
    ELSE LET ok == fs.dejavu /\ size > 0
         IN  [raised |-> FALSE,
              font |-> IF ok THEN [family |-> "DejaVuSans-Bold.ttf", source |-> "system",
                                   size |-> size]
                       ELSE DefaultFont,
              loads |-> r.loads \o <<[family |-> "DejaVuSans-Bold.ttf",
                                      where |-> "system", ok |-> ok]>>]

\* A cache key that leaves the size out.
CacheKeyPresetOnly(preset, size) == <<preset, 0>>

\* A cache key that leaves the preset out.
CacheKeySizeOnly(preset, size) == <<"", size>>

\* cache_key = f"{preset}_{size}"
CacheKey(preset, size) == <<preset, size>>

\* _get_font without its cache test (lines 94-95): every call resolves anew.
get_font_AlwaysLoad(cache, fs, preset, size) ==
    LET cache_key == CacheKey(preset, size)
        font_config == DictGet(FONT_PRESETS, preset, FONT_PRESETS["impact"])
        font_names == <<font_config.family>> \o font_config.fallbacks
        r == FallbackLoad(fs, size, CandidateLoop(fs, font_names, 1, size, NoFont, <<>>))
    IN  [raised |-> FALSE, font |-> r.font,
         cache |-> [k \in DOMAIN cache \cup {cache_key} |->
                       IF k = cache_key THEN r.font ELSE cache[k]],
         loads |-> r.loads]

\* _get_font: the font returned (or raised, if a load raised outside a try),
\* the cache afterwards and the loads attempted.
get_font(cache, fs, preset, size) ==
    LET cache_key == CacheKey(preset, size)
        font_config == DictGet(FONT_PRESETS, preset, FONT_PRESETS["impact"])
        font_names == <<font_config.family>> \o font_config.fallbacks
        r == FallbackLoad(fs, size, CandidateLoop(fs, font_names, 1, size, NoFont, <<>>))
    IN  IF cache_key \in DOMAIN cache
        THEN [raised |-> FALSE, font |-> cache[cache_key], cache |-> cache, loads |-> <<>>]
        ELSE IF r.raised
        THEN [raised |-> TRUE, font |-> NoFont, cache |-> cache, loads |-> r.loads]
        ELSE [raised |-> FALSE, font |-> r.font,
              cache |-> [k \in DOMAIN cache \cup {cache_key} |->
                            IF k = cache_key THEN r.font ELSE cache[k]],
              loads |-> r.loads]

\* Font metrics (abstraction of FreeType): a character is CharW wide and a
\* line LineH high; the built-in font ignores the requested size.
CharW(font) == IF font = DefaultFont THEN 6 ELSE Max2(1, font.size \div 2)

LineH(font) == IF font = DefaultFont THEN 11 ELSE font.size

LineSpacing == 4

\* --------------------------------------------------------------- text
SeqSum(q) ==
    LET S[i \in 0..Len(q)] == IF i = 0 THEN 0 ELSE S[i - 1] + q[i]
    IN  S[Len(q)]

SeqMax(q) ==
    LET M[i \in 0..Len(q)] == IF i = 0 THEN 0 ELSE Max2(M[i - 1], q[i])
    IN  M[Len(q)]

\* len(text)
StrLen(text) == SeqSum([i \in 1..Len(text) |-> IF text[i] > 0 THEN text[i] ELSE 1])

\* "\n" in text
HasNewline(text) == \E i \in 1..Len(text) : text[i] = -1

\* text.split(): the lengths of the whitespace-separated words.
RECURSIVE SplitFrom(_, _, _)
SplitFrom(text, i, cur) ==
    IF i > Len(text) THEN (IF cur > 0 THEN <<cur>> ELSE <<>>)
    ELSE IF text[i] > 0 THEN SplitFrom(text, i + 1, cur + text[i])
    ELSE (IF cur > 0 THEN <<cur>> ELSE <<>>) \o SplitFrom(text, i + 1, 0)

Split(text) == SplitFrom(text, 1, 0)

\* sep.join(parts) for parts that are strs and sep one token.
RECURSIVE JoinWith(_, _)
JoinWith(sep, parts) ==
    IF parts = <<>> THEN <<>>
    ELSE IF Len(parts) = 1 THEN parts[1]
    ELSE parts[1] \o <<sep>> \o JoinWith(sep, Tail(parts))

\* " ".join(words) for words given by their lengths.
JoinWords(words) == JoinWith(0, [i \in 1..Len(words) |-> <<words[i]>>])

\* text.split("\n"), as Pillow's multi-line functions do.
RECURSIVE SplitLinesFrom(_, _, _)
SplitLinesFrom(text, i, cur) ==
    IF i > Len(text) THEN <<cur>>
    ELSE IF text[i] = -1 THEN <<cur>> \o SplitLinesFrom(text, i + 1, <<>>)
    ELSE SplitLinesFrom(text, i + 1, Append(cur, text[i]))

SplitLines(text) == SplitLinesFrom(text, 1, <<>>)

\* The measured width of one line.
LineWidth(line, font) == StrLen(line) * CharW(font)

\* draw.textbbox((0, 0), text, font) and draw.multiline_textbbox: the
\* width bbox[2] - bbox[0] and the height bbox[3] - bbox[1].
TextBBox(text, font) ==
    LET lines == SplitLines(text)
        n == Len(lines)
    IN  IF StrLen(text) = 0 THEN [w |-> 0, h |-> 0]
        ELSE [w |-> SeqMax([i \in 1..n |-> LineWidth(lines[i], font)]),
              h |-> n * LineH(font) + (n - 1) * LineSpacing]

\* The loop without the test of line 282: a word that does not fit closes
\* the current line even when that line is empty.
RECURSIVE WrapLoopUnguarded(_, _, _, _, _, _)
WrapLoopUnguarded(words, i, lines, current_line, font, max_width) ==
    IF i > Len(words)
    THEN IF current_line # <<>> THEN Append(lines, JoinWords(current_line)) ELSE lines
    ELSE LET test_line == JoinWords(Append(current_line, words[i]))
         IN  IF TextBBox(test_line, font).w <= max_width
             THEN WrapLoopUnguarded(words, i + 1, lines, Append(current_line, words[i]),
                                    font, max_width)
             ELSE WrapLoopUnguarded(words, i + 1,
                                    Append(lines, JoinWords(current_line)),
                                    <<words[i]>>, font, max_width)

\* The loop of _wrap_text (lines 276-284) from word i on.
RECURSIVE WrapLoop(_, _, _, _, _, _)
WrapLoop(words, i, lines, current_line, font, max_width) ==
    IF i > Len(words)
    THEN IF current_line # <<>> THEN Append(lines, JoinWords(current_line)) ELSE lines
    ELSE LET test_line == JoinWords(Append(current_line, words[i]))
         IN  IF TextBBox(test_line, font).w <= max_width
             THEN WrapLoop(words, i + 1, lines, Append(current_line, words[i]),
                           font, max_width)
             ELSE WrapLoop(words, i + 1,
                           IF current_line # <<>>
                           THEN Append(lines, JoinWords(current_line)) ELSE lines,
                           <<words[i]>>, font, max_width)

\* _wrap_text: the lines, before "\n".join.
WrapLines(text, font, max_width) == WrapLoop(Split(text), 1, <<>>, <<>>, font, max_width)

\* _wrap_text joining its lines with " " instead of "\n".
WrapJoinedBySpace(text, font, max_width) == JoinWith(0, WrapLines(text, font, max_width))

\* A wrapper that puts every word on a line of its own.
WrapOneWordPerLine(text, font, max_width) ==
    JoinWith(-1, [i \in 1..Len(Split(text)) |-> <<Split(text)[i]>>])

wrap_text(text, font, max_width) == JoinWith(-1, WrapLines(text, font, max_width))

\* The size rule with its length tests turned round (< for >).
DynamicFontSizeInverted(height, length) ==
    LET base_size == IntMul(height, Ratio(12, 100))
        b20 == IF length < 20 THEN IntMul(base_size, Ratio(8, 10)) ELSE base_size
        b30 == IF length < 30 THEN IntMul(b20, Ratio(7, 10)) ELSE b20
    IN  Max2(b30, 24)

\* Lines 184-190: the font size when none is supplied.
DynamicFontSize(height, length) ==
    LET base_size == IntMul(height, Ratio(12, 100))
        b20 == IF length > 20 THEN IntMul(base_size, Ratio(8, 10)) ELSE base_size
        b30 == IF length > 30 THEN IntMul(b20, Ratio(7, 10)) ELSE b20
    IN  Max2(b30, 24)

\* int(dim * ratio - extent / 2), lines 221-222.
AnchorOrigin(dim, ratio, extent) ==
    TruncDiv(2 * ratio.n * dim - ratio.d * extent, 2 * ratio.d)

\* The clamp without its upper bound: max(10, v).
ClampLowOnly(v, dim, extent) == Max2(10, v)

\* max(10, min(v, dim - extent - 10)), lines 225-226.
Clamp(v, dim, extent) == Max2(10, Min2(v, dim - extent - 10))

\* ------------------------------------------------------------ drawing
Draw(pass, x, y, fill, multiline) ==
    [pass |-> pass, x |-> x, y |-> y, fill |-> fill, multiline |-> multiline]

\* A shadow pass that runs for every non-zero offset, negative ones too.
ShadowPassNonZero(x, y, shadow_offset, shadow_color, multiline) ==
    IF shadow_offset # 0
    THEN <<Draw("shadow", x + shadow_offset, y + shadow_offset, shadow_color, multiline)>>
    ELSE <<>>

\* Lines 229-236.
ShadowPass(x, y, shadow_offset, shadow_color, multiline) ==
    IF shadow_offset > 0
    THEN <<Draw("shadow", x + shadow_offset, y + shadow_offset, shadow_color, multiline)>>
    ELSE <<>>

\* The offsets without the test of line 242: the whole square.
StrokeOffsetsSquare(stroke_width) ==
    LET n == 2 * stroke_width + 1
    IN  [k \in 1..(n * n) |->
            <<((k - 1) \div n) - stroke_width, ((k - 1) % n) - stroke_width>>]

\* The offsets of lines 240-242 in loop order: dx outer, dy inner.
StrokeOffsets(stroke_width) ==
    LET n == 2 * stroke_width + 1
        all == [k \in 1..(n * n) |->
                   <<((k - 1) \div n) - stroke_width, ((k - 1) % n) - stroke_width>>]
    IN  SelectSeq(all, LAMBDA o :
            o[1] * o[1] + o[2] * o[2] <= stroke_width * stroke_width)

\* Lines 239-249.
StrokePass(x, y, stroke_width, stroke_color, multiline) ==
    IF stroke_width > 0
    THEN LET offs == StrokeOffsets(stroke_width)
         IN  [k \in 1..Len(offs) |->
                 Draw("stroke", x + offs[k][1], y + offs[k][2], stroke_color, multiline)]
    ELSE <<>>

\* Lines 252-255.
FillPass(x, y, fill_color, multiline) == <<Draw("fill", x, y, fill_color, multiline)>>

\* An overlay created opaque black: Image.new("RGBA", size, (0, 0, 0, 255)).
OpaqueOverlay(width, height) ==
    [width |-> width, height |-> height, color |-> <<0, 0, 0, 255>>]

\* Image.new("RGBA", size, (0, 0, 0, 0)) and what is drawn on it.
NewOverlay(width, height) ==
    [width |-> width, height |-> height, color |-> <<0, 0, 0, 0>>]

\* A composite that comes back with its two dimensions exchanged.
TransposedSize(image, overlay) ==
    IF image.width = overlay.width /\ image.height = overlay.height
    THEN [raised |-> FALSE, width |-> image.height, height |-> image.width]
    ELSE [raised |-> TRUE, width |-> 0, height |-> 0]

\* Image.alpha_composite(image, overlay): the size of the result; Pillow
\* raises ValueError when the two sizes differ.
CompositeSize(image, overlay) ==
    IF image.width = overlay.width /\ image.height = overlay.height
    THEN [raised |-> FALSE, width |-> image.width, height |-> image.height]
    ELSE [raised |-> TRUE, width |-> 0, height |-> 0]

\* ------------------------------------------------------------- images
\* A decoded image: its size, the synthetic raster it was decoded from and
\* the layers composited on it since. An undecodable input has ok = FALSE.
NoImage == [ok |-> FALSE, width |-> 0, height |-> 0, pat |-> "none", layers |-> <<>>]

\* The results of a call that raised before a step share these values.
NoBox == [w |-> 0, h |-> 0]

\* What add_text has computed so far is a record st that each step extends.
\* A call that raises returns no image; the fields of the steps it did not
\* reach keep the values of NotReached.
NotReached ==
    [font |-> NoFont, font_size |-> 0, loads |-> <<>>, wrapped |-> FALSE,
     max_width |-> 0, box |-> NoBox, x0 |-> 0, y0 |-> 0, x |-> 0, y |-> 0,
     overlay |-> NewOverlay(0, 0), draws |-> <<>>]

Raised(error, a, st) ==
    st @@ [outcome |-> "raised", error |-> error, image |-> NoImage, text |-> a.text]
       @@ NotReached

\* The size rule applied even when the caller supplies a size.
FontSizeOfAlwaysDynamic(a) == DynamicFontSize(a.image.height, StrLen(a.text))

\* Lines 182-190: the size requested from the font resolver.
FontSizeOf(a) ==
    IF a.font_size = None
    THEN DynamicFontSize(a.image.height, StrLen(a.text))
    ELSE a.font_size[1]

\* Lines 195-197.
ColorsOf(a) ==
    IF a.custom_colors # None THEN a.custom_colors[1]
    ELSE DictGet(COLOR_PRESETS, a.color_preset, COLOR_PRESETS["white_shadow"])

\* The anchor lookup with "center" as the default of .get().
PosRatiosOfCenter(a) ==
    IF a.custom_position # None THEN a.custom_position[1]
    ELSE DictGet(POSITION_PRESETS, a.position, POSITION_PRESETS["center"])

\* Lines 203-205.
PosRatiosOf(a) ==
    IF a.custom_position # None THEN a.custom_position[1]
    ELSE DictGet(POSITION_PRESETS, a.position, POSITION_PRESETS["bottom_center"])

\* Lines 257-266: composite, flatten, encode.
CompositeStep(a, st, size) ==
    IF size.raised THEN Raised("ValueError", a, [cache |-> st.cache])
    ELSE st @@ [outcome |-> "returned", error |-> "none",
                image |-> [ok |-> TRUE, width |-> size.width, height |-> size.height,
                           pat |-> a.image.pat,
                           layers |-> Append(a.image.layers,
                                        [kind |-> "text", background |-> st.overlay.color,
                                         text |-> st.text, font |-> st.font,
                                         draws |-> st.draws])]]

\* The passes with the fill drawn first, under the shadow and the stroke.
DrawStepFillFirst(a, st, colors, overlay, multiline) ==
    CompositeStep(a,
        st @@ [overlay |-> overlay, draws |->
                 FillPass(st.x, st.y, hex_to_rgb(colors.fill), multiline)
                 \o ShadowPass(st.x, st.y, a.shadow_offset,
                               hex_to_rgb(colors.shadow) \o <<128>>, multiline)
                 \o StrokePass(st.x, st.y, a.stroke_width,
                               hex_to_rgb(colors.stroke), multiline)],
        CompositeSize(a.image, overlay))

\* Lines 228-255: the shadow, stroke and fill passes on the overlay.
DrawStep(a, st, colors, overlay, multiline) ==
    CompositeStep(a,
        st @@ [overlay |-> overlay, draws |->
                 ShadowPass(st.x, st.y, a.shadow_offset,
                            hex_to_rgb(colors.shadow) \o <<128>>, multiline)
                 \o StrokePass(st.x, st.y, a.stroke_width,
                               hex_to_rgb(colors.stroke), multiline)
                 \o FillPass(st.x, st.y, hex_to_rgb(colors.fill), multiline)],
        CompositeSize(a.image, overlay))

\* Lines 224-226.
ClampStep(a, st) ==
    DrawStep(a,
        st @@ [x |-> Clamp(st.x0, a.image.width, st.box.w),
               y |-> Clamp(st.y0, a.image.height, st.box.h)],
        ColorsOf(a), NewOverlay(a.image.width, a.image.height), HasNewline(st.text))

\* Lines 220-222.
PlaceStep(a, st, pos_ratios) ==
    ClampStep(a,
        st @@ [x0 |-> AnchorOrigin(a.image.width, pos_ratios[1], st.box.w),
               y0 |-> AnchorOrigin(a.image.height, pos_ratios[2], st.box.h)])

\* The wrap test with >= for >: a text exactly max_width wide is wrapped.
WrapStepAtLimit(a, st, bbox0) ==
    IF bbox0.w >= st.max_width
    THEN PlaceStep(a,
             [text |-> wrap_text(a.text, st.font, st.max_width),
              box |-> TextBBox(wrap_text(a.text, st.font, st.max_width), st.font),
              wrapped |-> TRUE] @@ st,
             PosRatiosOf(a))
    ELSE PlaceStep(a, [text |-> a.text, box |-> bbox0, wrapped |-> FALSE] @@ st,
                   PosRatiosOf(a))

\* Lines 214-218: wrap when the text is wider than max_width.
WrapStep(a, st, bbox0) ==
    IF bbox0.w > st.max_width
    THEN PlaceStep(a,
             [text |-> wrap_text(a.text, st.font, st.max_width),
              box |-> TextBBox(wrap_text(a.text, st.font, st.max_width), st.font),
              wrapped |-> TRUE] @@ st,
             PosRatiosOf(a))
    ELSE PlaceStep(a, [text |-> a.text, box |-> bbox0, wrapped |-> FALSE] @@ st,
                   PosRatiosOf(a))

\* Lines 207-213.
MeasureStep(a, st) ==
    WrapStep(a, st @@ [max_width |-> IntMul(a.image.width, a.max_width_ratio)],
             TextBBox(a.text, st.font))

\* Line 192.
FontStep(a, font_size, gf) ==
    IF gf.raised THEN Raised("FontError", a, [cache |-> gf.cache])
    ELSE MeasureStep(a, [cache |-> gf.cache, font |-> gf.font,
                         font_size |-> font_size, loads |-> gf.loads])

\* add_text resolving the font before it decodes the image.
add_text_FontFirst(cache, a) ==
    IF ~a.image.ok
    THEN Raised("DecodeError", a,
                [cache |-> get_font(cache, a.fs, a.font_preset, FontSizeOf(a)).cache])
    ELSE FontStep(a, FontSizeOf(a), get_font(cache, a.fs, a.font_preset, FontSizeOf(a)))

\* add_text (lines 169-266) on the font cache `cache` with the arguments a.
add_text(cache, a) ==
    IF ~a.image.ok THEN Raised("DecodeError", a, [cache |-> cache])
    ELSE FontStep(a, FontSizeOf(a), get_font(cache, a.fs, a.font_preset, FontSizeOf(a)))

\* ------------------------------------------------- add_multiple_texts
\* The add_text call of lines 314-323 for one text_config on `image`: the
\* keys the dict lacks take the defaults of .get(), and stroke_width,
\* shadow_offset and max_width_ratio are not passed on.
ConfigCall(image, text_config, fs) ==
    [op |-> "add_text", image |-> image,
     text |-> DictGet(text_config, "text", <<>>),
     position |-> DictGet(text_config, "position", "bottom_center"),
     font_preset |-> DictGet(text_config, "font_preset", "impact"),
     color_preset |-> DictGet(text_config, "color_preset", "white_shadow"),
     font_size |-> DictGet(text_config, "font_size", None),
     stroke_width |-> 4, shadow_offset |-> 5, max_width_ratio |-> Ratio(9, 10),
     custom_position |-> DictGet(text_config, "custom_position", None),
     custom_colors |-> DictGet(text_config, "custom_colors", None),
     fs |-> fs]

\* The loop with every pass on the image it was called with.
RECURSIVE MultiLoopFromOriginal(_, _, _, _, _)
MultiLoopFromOriginal(cache, res, a, i, original) ==
    IF i > Len(a.texts)
    THEN [outcome |-> "returned", error |-> "none", image |-> res,
          cache |-> cache, passes |-> i - 1]
    ELSE LET r == add_text(cache, ConfigCall(original, a.texts[i], a.fs))
         IN  IF r.outcome = "raised"
             THEN [outcome |-> "raised", error |-> r.error, image |-> NoImage,
                   cache |-> r.cache, passes |-> i - 1]
             ELSE MultiLoopFromOriginal(r.cache, r.image, a, i + 1, original)

\* add_multiple_texts passing image_data, not result, to every add_text.
add_multiple_texts_FromOriginal(cache, a) ==
    MultiLoopFromOriginal(cache, a.image, a, 1, a.image)

\* The loop of lines 313-323 from config i on, `res` being `result`.
RECURSIVE MultiLoop(_, _, _, _)
MultiLoop(cache, res, a, i) ==
    IF i > Len(a.texts)
    THEN [outcome |-> "returned", error |-> "none", image |-> res,
          cache |-> cache, passes |-> i - 1]
    ELSE LET r == add_text(cache, ConfigCall(res, a.texts[i], a.fs))
         IN  IF r.outcome = "raised"
             THEN [outcome |-> "raised", error |-> r.error, image |-> NoImage,
                   cache |-> r.cache, passes |-> i - 1]
             ELSE MultiLoop(r.cache, r.image, a, i + 1)

\* add_multiple_texts (lines 311-325) on the font cache `cache`.
add_multiple_texts(cache, a) == MultiLoop(cache, a.image, a, 1)

\* ----------------------------------------------------------- gradient
\* 255 * opacity as P / 2: the modelled opacities make it an exact double.
OpacityP(opacity) == (510 * opacity.n) \div opacity.d

\* gradient.putpixel((x, actual_y), ...): Pillow counts a negative index
\* from the far edge and raises IndexError outside [-height, height).
PutRowOk(actual_y, height) == -height <= actual_y /\ actual_y < height

PutRow(actual_y, height) == IF actual_y < 0 THEN height + actual_y ELSE actual_y

\* The alpha a putpixel stores: each channel is clipped to 0..255.
Clip8(v) == Max2(0, Min2(255, v))

\* The two alpha formulas of lines 360 and 363 exchanged.
GradientRowSwapped(position, opacity, height, gradient_height, y) ==
    IF position = "bottom"
    THEN [y |-> y, actual_y |-> height - gradient_height + y,
          row |-> PutRow(height - gradient_height + y, height),
          alpha |-> AlphaTop(OpacityP(opacity), y, gradient_height)]
    ELSE [y |-> y, actual_y |-> y, row |-> PutRow(y, height),
          alpha |-> AlphaBottom(OpacityP(opacity), y, gradient_height)]

\* Lines 358-363: the row written for band row y (actual_y as computed, row
\* as putpixel resolves it) and its alpha.
GradientRow(position, opacity, height, gradient_height, y) ==
    IF position = "bottom"
    THEN [y |-> y, actual_y |-> height - gradient_height + y,
          row |-> PutRow(height - gradient_height + y, height),
          alpha |-> AlphaBottom(OpacityP(opacity), y, gradient_height)]
    ELSE [y |-> y, actual_y |-> y, row |-> PutRow(y, height),
          alpha |-> AlphaTop(OpacityP(opacity), y, gradient_height)]

\* A gradient image created as a quarter-opaque black veil.
NewGradientVeiled(width, height) ==
    [width |-> width, height |-> height, color |-> <<0, 0, 0, 64>>]

\* Image.new("RGBA", (width, height), (0, 0, 0, 0)) for the gradient.
NewGradient(width, height) ==
    [width |-> width, height |-> height, color |-> <<0, 0, 0, 0>>]

\* add_gradient_background (lines 346-375) with the arguments a.
add_gradient_background(a) ==
    LET image == a.image
        width == image.width
        height == image.height
        gradient == NewGradient(width, height)
        gradient_height == IntMul(height, a.height_ratio)
        row(y) == GradientRow(a.position, a.opacity, height, gradient_height, y)
        bad == {y \in 0..(gradient_height - 1) : ~PutRowOk(row(y).actual_y, height)}
        n == IF bad = {} THEN Max2(gradient_height, 0)
             ELSE CHOOSE y \in bad : \A z \in bad : y <= z
        rows == [i \in 1..n |-> row(i - 1)]
        size == CompositeSize(image, gradient)
        raised(error, written) ==
            [outcome |-> "raised", error |-> error, image |-> NoImage,
             gradient_height |-> IF image.ok THEN gradient_height ELSE 0,
             rows |-> written]
    IN  IF ~image.ok THEN raised("DecodeError", <<>>)
        ELSE IF bad # {} THEN raised("IndexError", rows)
        ELSE IF size.raised THEN raised("ValueError", rows)
        ELSE [outcome |-> "returned", error |-> "none",
              image |-> [ok |-> TRUE, width |-> size.width, height |-> size.height,
                         pat |-> image.pat,
                         layers |-> Append(image.layers,
                                      [kind |-> "gradient", background |-> gradient.color,
                                       rows |-> rows])],
              gradient_height |-> gradient_height, rows |-> rows]

\* ---------------------------------------------------------- endpoints
\* A text as a request carries it, before upper(): the tokens of a str, each
\* run with the number of characters upper() adds to it (a character such as
\* the sharp s has an upper-case form of two characters; none has a shorter
\* one, and white space is its own upper case).
Run(n, extra) == [n |-> n, extra |-> extra]

\* A text every character of which has an upper-case form of one character.
Plain(tokens) == [i \in DOMAIN tokens |-> Run(tokens[i], 0)]

\* str.upper() (main.py lines 356, 477 and 534), to the tokens add_text gets.
RECURSIVE upper(_)
upper(text) ==
    IF text = <<>> THEN <<>>
    ELSE <<IF Head(text).n > 0 THEN Head(text).n + Head(text).extra ELSE Head(text).n>>
         \o upper(Tail(text))

\* The routes that overlay text: "generate" is /generate/from-url
\* (generate_from_url), "from-prompt" is /generate/from-prompt
\* (generate_from_prompt), "text-overlay" is /text-overlay.
\* Whether the endpoint overlays anything: the two /generate routes only
\* under "if thumbnail_text and request.add_text_overlay" (main.py lines 346
\* and 466), /text-overlay always.
EndpointOverlays(q) ==
    IF q.route \in {"generate", "from-prompt"}
    THEN q.text # <<>> /\ q.add_text_overlay
    ELSE TRUE

\* Whether the endpoint makes the gradient call: the /generate routes with
\* every overlay, /text-overlay under "if request.add_gradient" (line 523).
EndpointWantsGradient(q) ==
    IF q.route \in {"generate", "from-prompt"} THEN EndpointOverlays(q)
    ELSE q.add_gradient

\* The gradient call the endpoints make (main.py lines 350-352, 471-473,
\* 524-529).
EndpointGradientCall(image) ==
    [op |-> "add_gradient_background", image |-> image, position |-> "bottom",
     opacity |-> Ratio(1, 2), height_ratio |-> Ratio(35, 100)]

\* The add_text call of an endpoint on `image`, with the text in upper case:
\* /generate/from-url (main.py lines 354-362) fixes the presets and passes
\* stroke_width 5 and shadow_offset 4; /generate/from-prompt (lines 475-482)
\* passes the position, presets and size of text_config, or their defaults
\* without one, and /text-overlay (lines 532-539) the request's; both leave
\* stroke_width and shadow_offset at add_text's defaults.
EndpointTextCall(q, image) ==
    IF q.route = "generate"
    THEN [op |-> "add_text", image |-> image, text |-> upper(q.text),
          position |-> "bottom_center", font_preset |-> "impact",
          color_preset |-> "white_shadow", font_size |-> None, stroke_width |-> 5,
          shadow_offset |-> 4, max_width_ratio |-> Ratio(9, 10),
          custom_position |-> None, custom_colors |-> None, fs |-> q.fs]
    ELSE [op |-> "add_text", image |-> image, text |-> upper(q.text),
          position |-> q.position, font_preset |-> q.font_preset,
          color_preset |-> q.color_preset, font_size |-> q.font_size,
          stroke_width |-> 4, shadow_offset |-> 5, max_width_ratio |-> Ratio(9, 10),
          custom_position |-> None, custom_colors |-> None, fs |-> q.fs]

\* No gradient call was made.
GradientSkipped == [outcome |-> "skipped", error |-> "none", image |-> NoImage,
                    gradient_height |-> 0, rows |-> <<>>]

\* No add_text call was made.
TextSkipped == Raised("none", [text |-> <<>>], [cache |-> <<>>])

\* The first call of an endpoint (main.py lines 346-352, 466-473 and
\* 523-529): the
\* gradient call, when the endpoint makes one.
endpoint_gradient(q) ==
    IF EndpointWantsGradient(q)
    THEN add_gradient_background(EndpointGradientCall(q.image))
    ELSE GradientSkipped

\* The response of an endpoint whose gradient call gave g and whose add_text
\* call gave t.
EndpointResponse(g, t) ==
    [outcome |-> t.outcome, error |-> t.error, image |-> t.image,
     cache |-> t.cache, gradient |-> g, overlay |-> t]

\* An endpoint that hands add_text the request's image, not the gradient's.
endpoint_text_OnInput(cache, q, g) ==
    IF g.outcome = "raised"
    THEN [outcome |-> "raised", error |-> g.error, image |-> NoImage,
          cache |-> cache, gradient |-> g, overlay |-> TextSkipped]
    ELSE IF ~EndpointOverlays(q)
    THEN [outcome |-> "returned", error |-> "none", image |-> q.image,
          cache |-> cache, gradient |-> g, overlay |-> TextSkipped]
    ELSE EndpointResponse(g, add_text(cache, EndpointTextCall(q, q.image)))

\* The rest of an endpoint once the gradient call gave g (main.py lines
\* 354-362, 475-482 and 532-539): add_text on what the gradient call returned, or on
\* the request's image when there was no gradient call; an exception of the
\* gradient call ends the request before add_text, and an endpoint that
\* overlays nothing responds with the image as it came.
endpoint_text(cache, q, g) ==
    IF g.outcome = "raised"
    THEN [outcome |-> "raised", error |-> g.error, image |-> NoImage,
          cache |-> cache, gradient |-> g, overlay |-> TextSkipped]
    ELSE IF ~EndpointOverlays(q)
    THEN [outcome |-> "returned", error |-> "none", image |-> q.image,
          cache |-> cache, gradient |-> g, overlay |-> TextSkipped]
    ELSE EndpointResponse(g, add_text(cache, EndpointTextCall(q,
                                 IF g.outcome = "returned" THEN g.image ELSE q.image)))

\* ------------------------------------------------------------- pixels
\* The synthetic raster an input image decodes to, as RGBA.
BasePixel(pat, x, y) ==
    <<(37 * x + 11 * y) % 256, (5 * x + 101 * y + 64) % 256, (x + y) % 256,
      IF pat = "translucent" THEN 128 ELSE 255>>

\* Whether the character in column idx (from 0) of a line is inked.
RECURSIVE InkCol(_, _, _)
InkCol(line, i, idx) ==
    IF i > Len(line) THEN FALSE
    ELSE LET n == IF line[i] > 0 THEN line[i] ELSE 1
         IN  IF idx < n THEN line[i] > 0 ELSE InkCol(line, i + 1, idx - n)

\* Whether draw.text / draw.multiline_text of `text` at (ox, oy) inks pixel
\* (px, py); multi-line text is drawn with align="center".
TextInk(text, font, multiline, ox, oy, px, py) ==
    LET lines == SplitLines(text)
        maxw == TextBBox(text, font).w
    IN  \E k \in 1..Len(lines) :
            LET top == oy + (k - 1) * (LineH(font) + LineSpacing)
                w == LineWidth(lines[k], font)
                left == ox + (IF multiline THEN (maxw - w) \div 2 ELSE 0)
            IN  /\ top <= py /\ py < top + LineH(font)
                /\ left <= px /\ px < left + w
                /\ InkCol(lines[k], 1, (px - left) \div CharW(font))

\* An ink given as (r, g, b) is opaque.
InkRGBA(fill) == IF Len(fill) = 3 THEN fill \o <<255>> ELSE fill

\* The pixel of a layer: the last draw (or putpixel) that covers it.
LayerPixel(layer, px, py) ==
    IF layer.kind = "text"
    THEN LET hits == {k \in 1..Len(layer.draws) :
                        TextInk(layer.text, layer.font, layer.draws[k].multiline,
                                layer.draws[k].x, layer.draws[k].y, px, py)}
         IN  IF hits = {} THEN layer.background
             ELSE InkRGBA(layer.draws[CHOOSE k \in hits : \A j \in hits : j <= k].fill)
    ELSE LET hits == {i \in 1..Len(layer.rows) : layer.rows[i].row = py}
         IN  IF hits = {} THEN layer.background
             ELSE <<0, 0, 0,
                    Clip8(layer.rows[CHOOSE i \in hits : \A j \in hits : j <= i].alpha)>>

\* Pillow's SHIFTFORDIV255.
ShiftForDiv255(a) == ((a \div 256) + a) \div 256

\* Image.alpha_composite on one pixel (Pillow's integer arithmetic, 7 bits
\* of precision).
AlphaComposite(dst, src) ==
    IF src[4] = 0 THEN dst
    ELSE LET blend == dst[4] * (255 - src[4])
             outa255 == src[4] * 255 + blend
             coef1 == (src[4] * 255 * 255 * 128) \div outa255
             coef2 == 255 * 128 - coef1
             ch(i) == ShiftForDiv255(src[i] * coef1 + dst[i] * coef2 + 128 * 128) \div 128
         IN  <<ch(1), ch(2), ch(3), ShiftForDiv255(outa255 + 128)>>

\* convert("RGB") followed by the next call's convert("RGBA").
Flatten(pixel) == <<pixel[1], pixel[2], pixel[3], 255>>

\* The pixel of an image after its first n layers.
RECURSIVE PixelAfter(_, _, _, _)
PixelAfter(img, n, x, y) ==
    IF n = 0 THEN BasePixel(img.pat, x, y)
    ELSE Flatten(AlphaComposite(PixelAfter(img, n - 1, x, y),
                                LayerPixel(img.layers[n], x, y)))

\* The RGB pixel of an image as the caller decodes it.
Pixel(img, x, y) ==
    LET p == PixelAfter(img, Len(img.layers), x, y) IN <<p[1], p[2], p[3]>>

\* -------------------------------------------------------- the requests
Canvas(w, h, pat) ==
    [ok |-> TRUE, width |-> w, height |-> h, pat |-> pat, layers |-> <<>>]

Canvases == {Canvas(60, 40, "opaque"), Canvas(320, 180, "opaque"),
             Canvas(1280, 720, "opaque")}

\* One space, a 5-character word, a 15-character word.
Tokens == {0, 5, 15}

Texts == UNION {[1..n -> Tokens] : n \in 0..MaxTokens}

\* "", 5 characters, 15 characters, 35 characters in one and in three words.
SomeTexts == {<<>>, <<5>>, <<15>>, <<15, 15, 5>>, <<15, 0, 5, 0, 5, 5, 0, 0, 0>>}

\* A server without custom fonts that has the DejaVu fonts installed.
DefaultFs == [valid |-> {}, corrupt |-> {}, system |-> {}, dejavu |-> TRUE]

FsStates ==
    [valid : SUBSET {<<"Impact", ".otf">>, <<"Arial Black", ".ttf">>},
     corrupt : SUBSET {<<"Impact", ".ttf">>},
     system : {{}, {"Arial Black"}, {"Helvetica Bold"}},
     dejavu : BOOLEAN]

\* add_text's defaults (lines 140-148).
Defaults(image, text) ==
    [op |-> "add_text", image |-> image, text |-> text,
     position |-> "bottom_center", font_preset |-> "impact",
     color_preset |-> "white_shadow", font_size |-> None, stroke_width |-> 4,
     shadow_offset |-> 5, max_width_ratio |-> Ratio(9, 10),
     custom_position |-> None, custom_colors |-> None, fs |-> DefaultFs]

CustomColors == [fill |-> Hex("1","2","A","B","0","9"),
                 stroke |-> Hex("F","F","0","0","F","F"),
                 shadow |-> Hex("3","3","3","3","3","3")]

\* Requests that vary the text, the size and the width available to it.
LayoutRequests ==
    {[Defaults(i, t) EXCEPT !.font_size = s, !.max_width_ratio = m] :
        i \in {Canvas(320, 180, "opaque"), Canvas(1280, 720, "opaque")},
        t \in Texts, s \in {None, Some(30)}, m \in {Ratio(9, 10), Ratio(1, 2)}}
    \cup
    {[Defaults(i, t) EXCEPT !.max_width_ratio = m] :
        i \in Canvases, t \in SomeTexts, m \in {Ratio(-1, 2), Ratio(3, 2)}}

\* Requests that vary the anchor.
PlacementRequests ==
    {[Defaults(i, t) EXCEPT !.position = p, !.custom_position = c] :
        i \in Canvases, t \in SomeTexts,
        p \in DOMAIN POSITION_PRESETS \cup {"middle"},
        c \in {None, Some(<<Ratio(0, 1), Ratio(0, 1)>>),
               Some(<<Ratio(1, 1), Ratio(1, 1)>>),
               Some(<<Ratio(3, 2), Ratio(-1, 2)>>)}}

\* Requests that vary the colours and the passes.
StyleRequests ==
    {[Defaults(i, t) EXCEPT !.color_preset = c, !.custom_colors = cc,
                            !.stroke_width = sw, !.shadow_offset = so] :
        i \in {Canvas(60, 40, "translucent"), Canvas(320, 180, "opaque")},
        t \in {<<>>, <<5, 0, 5>>},
        c \in DOMAIN COLOR_PRESETS \cup {"neon"}, cc \in {None, Some(CustomColors)},
        sw \in {-1, 0, 1, 2}, so \in {-1, 0, 3}}

\* Requests that vary the font preset, the size and the fonts installed.
FontRequests ==
    {[Defaults(i, t) EXCEPT !.font_preset = p, !.font_size = s, !.fs = f] :
        i \in {Canvas(320, 180, "opaque")}, t \in {<<5, 0, 5>>},
        p \in {"impact", "modern", "comic"}, s \in {None, Some(-5), Some(0)},
        f \in FsStates}

\* Requests that vary the image height, with texts of 5, 15 and 35 characters.
SizeRequests ==
    {Defaults(Canvas(640, h, "opaque"), t) :
        h \in (150..MaxHeight) \cup {945, 1080, 2160}, t \in {<<5>>, <<15>>, <<15, 15, 5>>}}

\* Requests that name presets the tables do not hold.
PresetRequests ==
    {[Defaults(i, t) EXCEPT !.color_preset = c, !.position = p, !.font_preset = f] :
        i \in {Canvas(320, 180, "opaque")}, t \in {<<5, 0, 5>>, <<15, 15, 5>>},
        c \in {"white_shadow", "neon"}, p \in {"bottom_center", "top_left", "middle"},
        f \in {"impact", "comic"}}

\* Requests whose image does not decode.
UndecodableRequests == {Defaults(NoImage, t) : t \in SomeTexts}

\* The text_config dicts given to add_multiple_texts: all keys missing, the
\* text alone, and texts with a position and colours of their own.
TextConfigs ==
    {[k \in {} |-> None],
     [text |-> <<5, 0, 5>>],
     [text |-> <<15>>, position |-> "center", color_preset |-> "yellow_pop"],
     [text |-> <<15, 0, 5>>, position |-> "center", color_preset |-> "fire",
      custom_colors |-> None],
     [text |-> <<5>>, custom_position |-> Some(<<Ratio(1, 2), Ratio(1, 2)>>),
      font_preset |-> "impact", font_size |-> Some(30)]}

ConfigLists == UNION {[1..n -> TextConfigs] : n \in 0..MaxTexts}

MultiRequests ==
    {[op |-> "add_multiple_texts", image |-> i, texts |-> q, fs |-> DefaultFs] :
        i \in {Canvas(320, 180, "opaque"), Canvas(60, 40, "translucent"), NoImage},
        q \in ConfigLists}

\* Texts of 10, 11 and 12 characters at size 30 on a canvas whose max_width,
\* int(330 * 0.5) = 165, is exactly the width of 11 characters.
FitRequests ==
    {[Defaults(Canvas(330, 180, "opaque"), t)
         EXCEPT !.font_size = Some(30), !.max_width_ratio = Ratio(1, 2)] :
        t \in {<<5, 0, 0, 0, 0, 0>>, <<5, 0, 5>>, <<5, 0, 0, 5>>}}

AddTextRequests ==
    LayoutRequests \cup PlacementRequests \cup StyleRequests \cup FitRequests
        \cup FontRequests \cup SizeRequests \cup PresetRequests \cup UndecodableRequests

Gradient(i, p, o, h) ==
    [op |-> "add_gradient_background", image |-> i, position |-> p,
     opacity |-> o, height_ratio |-> h]

\* Every direction, opacity and band ratio on a small canvas, the values
\* main.py and the defaults use on larger ones, and every band height up to
\* MaxBand.
GradientRequests ==
    {Gradient(i, p, o, h) :
        i \in {Canvas(60, 40, "opaque")}, p \in {"bottom", "top"},
        o \in {Ratio(1, 2), Ratio(6, 10), Ratio(0, 1), Ratio(1, 1),
               Ratio(3, 2), Ratio(-1, 2)},
        h \in {Ratio(3, 10), Ratio(35, 100), Ratio(0, 1), Ratio(1, 1),
               Ratio(3, 2), Ratio(5, 2), Ratio(-1, 2)}}
    \cup {Gradient(i, p, o, h) :
        i \in {Canvas(320, 180, "translucent"), Canvas(1280, 720, "opaque"), NoImage},
        p \in {"bottom", "top"}, o \in {Ratio(1, 2), Ratio(6, 10)},
        h \in {Ratio(3, 10), Ratio(35, 100)}}
    \cup {Gradient(Canvas(8, b, "opaque"), p, o, Ratio(1, 1)) :
        b \in 1..MaxBand, p \in {"bottom", "top"}, o \in {Ratio(1, 2), Ratio(1, 1)}}

\* The texts of the endpoint requests: two and five plain words, and two
\* words of five sharp s, which upper() doubles.
EndpointTexts ==
    {Plain(<<5, 0, 5>>), Plain(<<15, 0, 5, 0, 5, 5, 0, 0, 0>>),
     <<Run(5, 5), Run(0, 0), Run(5, 5)>>}

\* Requests, each for one image (num_variations 1 on the /generate routes),
\* to /generate/from-url (the image is the generated one, the text
\* the prompt generator's thumbnail_text, which may be empty), to
\* /generate/from-prompt (the text is the request's thumbnail_text; position,
\* presets and size are those of text_config, the defaults without one) and
\* to /text-overlay (TextOverlayRequest, whose text has min_length 1).
EndpointRequests ==
    {[op |-> "endpoint", route |-> "generate", image |-> i, text |-> t,
      position |-> "bottom_center", font_preset |-> "impact",
      color_preset |-> "white_shadow", font_size |-> None, add_gradient |-> TRUE,
      add_text_overlay |-> o, fs |-> DefaultFs] :
        i \in {Canvas(320, 180, "opaque"), Canvas(1280, 720, "opaque"), NoImage},
        t \in EndpointTexts \cup {<<>>}, o \in BOOLEAN}
    \cup
    {[op |-> "endpoint", route |-> "from-prompt", image |-> i, text |-> t,
      position |-> c[1], font_preset |-> "impact", color_preset |-> "white_shadow",
      font_size |-> c[2], add_gradient |-> TRUE, add_text_overlay |-> o,
      fs |-> DefaultFs] :
        i \in {Canvas(320, 180, "opaque"), NoImage},
        t \in EndpointTexts \cup {<<>>}, o \in BOOLEAN,
        c \in {<<"bottom_center", None>>, <<"top_center", Some(30)>>}}
    \cup
    {[op |-> "endpoint", route |-> "text-overlay", image |-> i, text |-> t,
      position |-> p, font_preset |-> "impact", color_preset |-> "white_shadow",
      font_size |-> s, add_gradient |-> g, add_text_overlay |-> TRUE,
      fs |-> DefaultFs] :
        i \in {Canvas(320, 180, "opaque"), NoImage},
        t \in EndpointTexts,
        p \in {"bottom_center", "top_center"}, s \in {None, Some(30)},
        g \in BOOLEAN}

\* ----------------------------------------------------- the state machine
VARIABLES font_cache, pc, call, result, supabase

vars == <<font_cache, pc, call, result, supabase>>

\* LoRATrainer.__init__ without url or key (lines 22-28): self.supabase is
\* None and there is no face_models table.
NoStore == [configured |-> FALSE, face_models |-> <<>>, next_id |-> 1]

NoCall == [op |-> "none"]

NoResult == [outcome |-> "none"]

EmptyCache == [k \in {} |-> NoFont]

\* main.py line 47: the process starts with a fresh TextOverlayService.
Init ==
    /\ font_cache = EmptyCache
    /\ pc = "idle"
    /\ call = NoCall
    /\ result = NoResult
    /\ supabase = NoStore

\* One call of add_text, from entry to return or raise. The model follows
\* a service until its cache holds MaxCacheKeys keys.
AddText ==
    /\ pc = "idle"
    /\ \E a \in AddTextRequests :
          LET r == add_text(font_cache, a)
          IN  /\ Cardinality(DOMAIN r.cache) <= MaxCacheKeys
              /\ call' = a
              /\ result' = r
              /\ font_cache' = r.cache
    /\ pc' = "done"
    /\ UNCHANGED supabase

\* One call of add_gradient_background; it does not touch the font cache.
AddGradientBackground ==
    /\ pc = "idle"
    /\ \E a \in GradientRequests :
          /\ call' = a
          /\ result' = add_gradient_background(a)
    /\ pc' = "done"
    /\ UNCHANGED font_cache
    /\ UNCHANGED supabase

\* One call of add_multiple_texts: its add_text passes in order.
AddMultipleTexts ==
    /\ pc = "idle"
    /\ \E a \in MultiRequests :
          LET r == add_multiple_texts(font_cache, a)
          IN  /\ Cardinality(DOMAIN r.cache) <= MaxCacheKeys
              /\ call' = a
              /\ result' = r
              /\ font_cache' = r.cache
    /\ pc' = "done"
    /\ UNCHANGED supabase

\* A request to an endpoint that overlays text (main.py) arrives and the
\* endpoint makes its gradient call, if any.
EndpointGradientPass ==
    /\ pc = "idle"
    /\ \E q \in EndpointRequests :
          /\ call' = q
          /\ result' = endpoint_gradient(q)
    /\ pc' = "gradient_done"
    /\ UNCHANGED <<font_cache, supabase>>

\* The endpoint goes on to its add_text call and responds.
EndpointText ==
    /\ pc = "gradient_done"
    /\ LET r == endpoint_text(font_cache, call, result)
       IN  /\ Cardinality(DOMAIN r.cache) <= MaxCacheKeys
           /\ result' = r
           /\ font_cache' = r.cache
    /\ pc' = "done"
    /\ UNCHANGED <<call, supabase>>

\* The caller has taken the result; the service waits for the next call.
Return ==
    /\ pc = "done"
    /\ pc' = "idle"
    /\ call' = NoCall
    /\ result' = NoResult
    /\ UNCHANGED font_cache
    /\ UNCHANGED supabase

\* The process is restarted: a new TextOverlayService with an empty cache.
Restart ==
    /\ pc = "idle"
    /\ font_cache # EmptyCache
    /\ font_cache' = EmptyCache
    /\ UNCHANGED <<pc, call, result>>
    /\ UNCHANGED supabase

Next ==
    \/ AddText \/ AddGradientBackground \/ AddMultipleTexts \/ EndpointGradientPass
    \/ EndpointText \/ Return \/ Restart

Spec == Init /\ [][Next]_vars

\* ------------------------------------------- one unchanging font set
\* A server whose fonts do not change while it runs: Impact.otf (loadable)
\* and Impact.ttf (not loadable) in fonts_dir, Arial Black and DejaVu among
\* the system fonts.
SteadyFs ==
    [valid |-> {<<"Impact", ".otf">>}, corrupt |-> {<<"Impact", ".ttf">>},
     system |-> {"Arial Black"}, dejavu |-> TRUE]

SteadyRequests ==
    {[a EXCEPT !.fs = SteadyFs] :
        a \in PlacementRequests \cup StyleRequests \cup PresetRequests
                  \cup UndecodableRequests}
    \cup
    {[Defaults(i, t) EXCEPT !.font_preset = p, !.font_size = s, !.fs = SteadyFs] :
        i \in {Canvas(320, 180, "opaque")}, t \in {<<5, 0, 5>>, <<15, 0, 15>>},
        p \in {"impact", "modern", "dramatic", "clean", "comic"},
        s \in {None, Some(-5), Some(0), Some(24), Some(30), Some(48)}}

SteadyAddText ==
    /\ pc = "idle"
    /\ \E a \in SteadyRequests :
          LET r == add_text(font_cache, a)
          IN  /\ Cardinality(DOMAIN r.cache) <= MaxCacheKeys
              /\ call' = a
              /\ result' = r
              /\ font_cache' = r.cache
    /\ pc' = "done"
    /\ UNCHANGED supabase

SteadyNext == SteadyAddText \/ AddGradientBackground \/ Return \/ Restart

SteadySpec == Init /\ [][SteadyNext]_vars

\* ----------------------------------------------- calls in flight at once
\* Several add_text calls on the one service of main.py, taken apart at the
\* points where _get_font touches the shared dict: the membership test
\* (line 94), the read of a hit (line 95), the load of a miss (lines 97-126,
\* local), the insert (line 128), and the rest of add_text (local). Here
\* pc, call and result hold one value per call in flight, and the installed
\* fonts are SteadyFs.
Threads == 1..NumThreads

ConcRequests ==
    {[Defaults(Canvas(320, 180, "opaque"), <<5, 0, 5>>)
         EXCEPT !.font_preset = p, !.font_size = s, !.fs = SteadyFs] :
        p \in {"impact", "modern"}, s \in {None, Some(30)}}

KeyOf(a) == CacheKey(a.font_preset, FontSizeOf(a))

\* The keys of the calls in flight.
KeysInFlight == {KeyOf(call[t]) : t \in {u \in Threads : pc[u] # "idle"}}

ConcInit ==
    /\ font_cache = EmptyCache
    /\ pc = [t \in Threads |-> "idle"]
    /\ call = [t \in Threads |-> NoCall]
    /\ result = [t \in Threads |-> NoResult]
    /\ supabase = NoStore

\* add_text up to its call of _get_font (lines 169-192).
ConcCall ==
    \E t \in Threads, a \in ConcRequests :
        /\ pc[t] = "idle"
        /\ Cardinality(DOMAIN font_cache \cup KeysInFlight \cup {KeyOf(a)}) <= MaxSharedKeys
        /\ call' = [call EXCEPT ![t] = a]
        /\ pc' = [pc EXCEPT ![t] = "lookup"]
        /\ UNCHANGED <<font_cache, result>>
        /\ UNCHANGED supabase

\* Line 94: cache_key in self._font_cache.
ConcLookup ==
    \E t \in Threads :
        /\ pc[t] = "lookup"
        /\ pc' = [pc EXCEPT ![t] = IF KeyOf(call[t]) \in DOMAIN font_cache
                                   THEN "hit" ELSE "load"]
        /\ UNCHANGED <<font_cache, call, result>>
        /\ UNCHANGED supabase

\* Line 95: return self._font_cache[cache_key].
ConcHit ==
    \E t \in Threads :
        /\ pc[t] = "hit"
        /\ KeyOf(call[t]) \in DOMAIN font_cache
        /\ result' = [result EXCEPT ![t] =
                         [raised |-> FALSE, font |-> font_cache[KeyOf(call[t])],
                          loads |-> <<>>]]
        /\ pc' = [pc EXCEPT ![t] = "draw"]
        /\ UNCHANGED <<font_cache, call>>
        /\ UNCHANGED supabase

\* Lines 97-126: the candidates and the fallback, into the local `font`.
ConcLoad ==
    \E t \in Threads :
        /\ pc[t] = "load"
        /\ LET a == call[t]
               font_config == DictGet(FONT_PRESETS, a.font_preset, FONT_PRESETS["impact"])
               font_names == <<font_config.family>> \o font_config.fallbacks
           IN  result' = [result EXCEPT ![t] =
                   FallbackLoad(a.fs, FontSizeOf(a),
                       CandidateLoop(a.fs, font_names, 1, FontSizeOf(a), NoFont, <<>>))]
        /\ pc' = [pc EXCEPT ![t] = "insert"]
        /\ UNCHANGED <<font_cache, call>>
        /\ UNCHANGED supabase

\* An insert that keeps the new key only, dropping every other entry.
ConcInsertEvicting ==
    \E t \in Threads :
        /\ pc[t] = "insert"
        /\ font_cache' = [k \in {KeyOf(call[t])} |-> result[t].font]
        /\ pc' = [pc EXCEPT ![t] = "draw"]
        /\ UNCHANGED <<call, result>>
        /\ UNCHANGED supabase

\* Line 128: self._font_cache[cache_key] = font.
ConcInsert ==
    \E t \in Threads :
        /\ pc[t] = "insert"
        /\ font_cache' = [k \in DOMAIN font_cache \cup {KeyOf(call[t])} |->
                             IF k = KeyOf(call[t]) THEN result[t].font ELSE font_cache[k]]
        /\ pc' = [pc EXCEPT ![t] = "draw"]
        /\ UNCHANGED <<call, result>>
        /\ UNCHANGED supabase

\* Lines 194-266 with the font _get_font returned.
ConcDraw ==
    \E t \in Threads :
        /\ pc[t] = "draw"
        /\ result' = [result EXCEPT ![t] =
                         FontStep(call[t], FontSizeOf(call[t]),
                                  [raised |-> FALSE, font |-> result[t].font,
                                   cache |-> font_cache, loads |-> result[t].loads])]
        /\ pc' = [pc EXCEPT ![t] = "done"]
        /\ UNCHANGED <<font_cache, call>>
        /\ UNCHANGED supabase

ConcReturn ==
    \E t \in Threads :
        /\ pc[t] = "done"
        /\ pc' = [pc EXCEPT ![t] = "idle"]
        /\ call' = [call EXCEPT ![t] = NoCall]
        /\ result' = [result EXCEPT ![t] = NoResult]
        /\ UNCHANGED font_cache
        /\ UNCHANGED supabase

ConcNext ==
    \/ ConcCall \/ ConcLookup \/ ConcHit \/ ConcLoad
    \/ ConcInsert \/ ConcDraw \/ ConcReturn

ConcSpec == ConcInit /\ [][ConcNext]_vars

\* ------------------------------------------------------ face model training
\* LoRATrainer.start_training (lora_trainer.py lines 36-115), run as a
\* background task by /face-models/train (main.py lines 559-564). Several
\* tasks can be in flight on the one trainer; each is taken apart at its
\* calls to the store and to the training service, whose outcomes are the
\* environment's. Here pc, call and result hold one value per task.
Tasks == 1..NumTasks

\* user_id.replace("-", "")[:8].upper(), on a user id given as its characters.
UpperCase == [d |-> "D", e |-> "E", m |-> "M", o |-> "O", u |-> "U", s |-> "S", r |-> "R"]

Remove(chars, c) == SelectSeq(chars, LAMBDA x : x # c)

\* _generate_trigger_word (lines 30-34): "FACE_" and the short id.
generate_trigger_word(user_id) ==
    LET stripped == Remove(user_id, "-")
        short_id == SubSeq(stripped, 1, Min2(8, Len(stripped)))
    IN  <<"FACE_">> \o [i \in 1..Len(short_id) |-> DictGet(UpperCase, short_id[i], short_id[i])]

\* "demo-user" (main.py line 555) and a longer id.
UserIds == {<<"d", "e", "m", "o", "-", "u", "s", "e", "r">>,
            <<"u", "s", "e", "r", "-", "0", "0", "-", "d", "e", "m", "o">>}

TrainRequests ==
    [op : {"start_training"}, user_id : UserIds, images_zip_url : {"zip-url"},
     model_name : {"me"}]

\* What a call to the store does: it returns, or it raises (the service is
\* unreachable or rejects the request).
StoreOutcomes == {"ok", "raises"}

\* What awaiting fal_client.subscribe_async does: it returns a result with the
\* weights' url, returns a result without one, raises an Exception, or the
\* task is cancelled while it waits (asyncio.CancelledError, a BaseException).
SubscribeOutcomes == {"result", "no_url", "raises", "cancelled"}

\* A configured store: the rows of face_models and the id the table gives
\* the next row inserted (an id is not given twice).
Store(rows, next_id) ==
    [configured |-> TRUE, face_models |-> rows, next_id |-> next_id]

\* Whether the task's updates are made: "if self.supabase and model_id".
Recorded(t) == supabase.configured /\ result[t].model_id # None

\* table("face_models").update(fields).eq("id", model_id).execute()
UpdateRow(rows, model_id, fields) ==
    [i \in DOMAIN rows |-> IF rows[i].id = model_id THEN fields @@ rows[i] ELSE rows[i]]

Finish(t, outcome, error) ==
    /\ pc' = [pc EXCEPT ![t] = "done"]
    /\ result' = [result EXCEPT ![t] = [@ EXCEPT !.outcome = outcome, !.error = error]]

TrainInit ==
    /\ font_cache = EmptyCache
    /\ pc = [t \in Tasks |-> "idle"]
    /\ call = [t \in Tasks |-> NoCall]
    /\ result = [t \in Tasks |-> NoResult]
    /\ supabase \in {NoStore, Store(<<>>, 1)}

\* Lines 54-57: the call is entered and the trigger word made.
StartTraining ==
    \E t \in Tasks, q \in TrainRequests :
        /\ pc[t] = "idle"
        /\ (supabase.next_id - 1)
              + Cardinality({u \in Tasks : pc[u] = "insert"}) < MaxRows
        /\ call' = [call EXCEPT ![t] = q]
        /\ result' = [result EXCEPT ![t] =
                         [outcome |-> "none", error |-> "none", model_id |-> None,
                          trigger_word |-> generate_trigger_word(q.user_id),
                          lora_url |-> None]]
        /\ pc' = [pc EXCEPT ![t] = "insert"]
        /\ UNCHANGED <<font_cache, supabase>>

\* Lines 58-66: the record is inserted with training_status "training"; the
\* insert is outside the try, so its exception leaves the call.
InsertRecord ==
    \E t \in Tasks :
        /\ pc[t] = "insert"
        /\ IF ~supabase.configured
           THEN /\ pc' = [pc EXCEPT ![t] = "subscribe"]
                /\ UNCHANGED <<result, supabase>>
           ELSE \E o \in StoreOutcomes :
                   IF o = "ok"
                   THEN LET id == supabase.next_id
                        IN  /\ supabase' = Store(Append(supabase.face_models,
                                   [id |-> id, user_id |-> call[t].user_id,
                                    name |-> call[t].model_name,
                                    trigger_word |-> result[t].trigger_word,
                                    lora_url |-> None, training_status |-> "training",
                                    error_message |-> None]), id + 1)
                            /\ result' = [result EXCEPT ![t].model_id = Some(id)]
                            /\ pc' = [pc EXCEPT ![t] = "subscribe"]
                   ELSE /\ Finish(t, "raised", "StoreError")
                        /\ UNCHANGED supabase
        /\ UNCHANGED <<font_cache, call>>

\* Lines 76-90: the training job is awaited and the url read from its
\* result. "except Exception" catches an Exception and the KeyError of a
\* result without url; a cancellation passes it by.
Subscribe ==
    \E t \in Tasks, o \in SubscribeOutcomes :
        /\ pc[t] = "subscribe"
        /\ CASE o = "result" ->
                  /\ result' = [result EXCEPT ![t].lora_url = Some("lora-url")]
                  /\ pc' = [pc EXCEPT ![t] = "update_completed"]
             [] o = "no_url" ->
                  /\ result' = [result EXCEPT ![t].error = "KeyError"]
                  /\ pc' = [pc EXCEPT ![t] = "update_failed"]
             [] o = "raises" ->
                  /\ result' = [result EXCEPT ![t].error = "TrainingError"]
                  /\ pc' = [pc EXCEPT ![t] = "update_failed"]
             [] o = "cancelled" -> Finish(t, "raised", "CancelledError")
        /\ UNCHANGED <<font_cache, call, supabase>>

\* Lines 92-104: the record is set to "completed" and the call returns; an
\* exception of the update is caught by the except clause.
UpdateCompleted ==
    \E t \in Tasks :
        /\ pc[t] = "update_completed"
        /\ IF ~Recorded(t)
           THEN Finish(t, "returned", "none") /\ UNCHANGED supabase
           ELSE \E o \in StoreOutcomes :
                   IF o = "ok"
                   THEN /\ supabase' = Store(UpdateRow(supabase.face_models,
                               result[t].model_id[1],
                               [lora_url |-> result[t].lora_url,
                                training_status |-> "completed"]),
                               supabase.next_id)
                        /\ Finish(t, "returned", "none")
                   ELSE /\ result' = [result EXCEPT ![t].error = "StoreError"]
                        /\ pc' = [pc EXCEPT ![t] = "update_failed"]
                        /\ UNCHANGED supabase
        /\ UNCHANGED <<font_cache, call>>

\* Lines 106-115: the record is set to "failed" and the exception raised
\* again; an exception of this update replaces it and leaves the record as
\* it was.
UpdateFailed ==
    \E t \in Tasks :
        /\ pc[t] = "update_failed"
        /\ IF ~Recorded(t)
           THEN Finish(t, "raised", result[t].error) /\ UNCHANGED supabase
           ELSE \E o \in StoreOutcomes :
                   IF o = "ok"
                   THEN /\ supabase' = Store(UpdateRow(supabase.face_models,
                               result[t].model_id[1],
                               [training_status |-> "failed",
                                error_message |-> Some(result[t].error)]),
                               supabase.next_id)
                        /\ Finish(t, "raised", result[t].error)
                   ELSE /\ Finish(t, "raised", "StoreError")
                        /\ UNCHANGED supabase
        /\ UNCHANGED <<font_cache, call>>

\* A delete_model that lets the caller delete another user's model.
delete_model_AnyOwner(store, model_id, user_id) ==
    IF ~store.configured
    THEN [outcome |-> "raised", error |-> "ValueError", store |-> store]
    ELSE IF ~\E i \in DOMAIN store.face_models : store.face_models[i].id = model_id
         THEN [outcome |-> "raised", error |-> "ValueError", store |-> store]
         ELSE [outcome |-> "returned", error |-> "none",
               store |-> Store(SelectSeq(store.face_models, LAMBDA r : r.id # model_id),
                               store.next_id)]

\* delete_model (lines 154-176) on the store: ValueError without a store,
\* and when no row has the id or the row is another user's; else the row is
\* deleted and the call returns True.
delete_model(store, model_id, user_id) ==
    IF ~store.configured
    THEN [outcome |-> "raised", error |-> "ValueError", store |-> store]
    ELSE IF ~\E i \in DOMAIN store.face_models :
                 /\ store.face_models[i].id = model_id
                 /\ store.face_models[i].user_id = user_id
         THEN [outcome |-> "raised", error |-> "ValueError", store |-> store]
         ELSE [outcome |-> "returned", error |-> "none",
               store |-> Store(SelectSeq(store.face_models, LAMBDA r : r.id # model_id),
                               store.next_id)]

\* DELETE /face-models/{model_id} (main.py lines 611-622): delete_model has
\* no await, so it runs between two steps of the training tasks. A store
\* call that raises leaves the table as it was.
DeleteModel ==
    \E model_id \in 1..MaxRows, user_id \in UserIds, o \in StoreOutcomes :
        /\ supabase' = IF o = "ok" THEN delete_model(supabase, model_id, user_id).store
                       ELSE supabase
        /\ UNCHANGED <<font_cache, pc, call, result>>

\* The background task is over.
TaskEnd ==
    \E t \in Tasks :
        /\ pc[t] = "done"
        /\ pc' = [pc EXCEPT ![t] = "idle"]
        /\ call' = [call EXCEPT ![t] = NoCall]
        /\ result' = [result EXCEPT ![t] = NoResult]
        /\ UNCHANGED <<font_cache, supabase>>

TrainNext ==
    \/ StartTraining \/ InsertRecord \/ Subscribe
    \/ UpdateCompleted \/ UpdateFailed \/ DeleteModel \/ TaskEnd

TrainSpec == TrainInit /\ [][TrainNext]_vars

\* ------------------------------------------------------------- claims
TextDone == pc = "done" /\ call.op = "add_text"

GradientDone == pc = "done" /\ call.op = "add_gradient_background"

Returned == result.outcome = "returned"

\* The pixels compared: a lattice over the canvas, its far corner, and the
\* origin of every draw that falls on the canvas.
ProbeAxis(dim) == {v \in 0..(dim - 1) : v % ((dim \div 8) + 1) = 0} \cup {dim - 1}

ProbePoints(width, height, draws) ==
    (ProbeAxis(width) \X ProbeAxis(height))
    \cup {<<draws[i].x, draws[i].y>> : i \in {j \in DOMAIN draws :
            /\ 0 <= draws[j].x /\ draws[j].x < width
            /\ 0 <= draws[j].y /\ draws[j].y < height}}

\* C1: every image add_text or add_gradient_background returns has the width
\* and the height of the image it was given.
C1_DimensionsPreserved ==
    (pc = "done" /\ Returned) =>
        /\ result.image.width = call.image.width
        /\ result.image.height = call.image.height

\* add_text returned a 1280 x 720 image after wrapping, and so did a gradient
\* call on a 320 x 180 one.
C1_Witness ==
    \/ /\ TextDone /\ Returned /\ result.wrapped
       /\ call.image.width = 1280 /\ result.image.height = 720
    \/ /\ GradientDone /\ Returned /\ Len(result.rows) > 0
       /\ call.image.width = 320 /\ result.image.height = 180

\* C2 as the specification states it: add_text with the empty string
\* executes no drawing pass and returns the input's pixels.
C2_NoPassExecuted ==
    (TextDone /\ Returned /\ call.text = <<>>) =>
        /\ result.draws = <<>>
        /\ \A p \in ProbePoints(call.image.width, call.image.height, result.draws) :
              Pixel(result.image, p[1], p[2]) = Pixel(call.image, p[1], p[2])

\* C2: add_text with the empty string runs the passes its arguments select
\* (the fill pass always, the shadow pass when shadow_offset > 0, the stroke
\* offsets when stroke_width > 0), each on the empty string, and the image
\* it returns has the RGB value of the input at every pixel compared.
C2_EmptyTextLeavesPixels ==
    (TextDone /\ Returned /\ call.text = <<>>) =>
        /\ result.draws # <<>>
        /\ result.draws[Len(result.draws)].pass = "fill"
        /\ (call.shadow_offset > 0) = (\E i \in DOMAIN result.draws :
                                          result.draws[i].pass = "shadow")
        /\ (call.stroke_width > 0) = (\E i \in DOMAIN result.draws :
                                          result.draws[i].pass = "stroke")
        /\ \A p \in ProbePoints(call.image.width, call.image.height, result.draws) :
              Pixel(result.image, p[1], p[2]) = Pixel(call.image, p[1], p[2])

\* The empty string went through shadow, stroke and fill on a translucent image.
C2_Witness ==
    /\ TextDone /\ Returned /\ call.text = <<>>
    /\ call.image.pat = "translucent"
    /\ call.shadow_offset > 0 /\ call.stroke_width > 0
    /\ Len(result.draws) > 2

\* The lines _wrap_text produced, read back from the text it returned: none
\* for the empty string (the join of no lines), else its "\n"-separated parts.
LinesOf(text) == IF text = <<>> THEN <<>> ELSE SplitLines(text)

\* C3: after wrapping, every line is at most max_width_ratio * image_width
\* wide, except a line made of one word that is itself wider than that; such
\* a word stands alone on its line.
C3_WrappedLinesFit ==
    (TextDone /\ Returned /\ result.wrapped) =>
        \A i \in DOMAIN LinesOf(result.text) :
            LET line == LinesOf(result.text)[i]
                w == LineWidth(line, result.font)
                r == call.max_width_ratio
            IN  \/ w * r.d <= r.n * call.image.width
                \/ /\ Len(Split(line)) = 1
                   /\ LineWidth(<<Split(line)[1]>>, result.font) * r.d
                          > r.n * call.image.width

\* A wrapped text with a line of two words that fits and a line of one word
\* that does not.
C3_Witness ==
    /\ TextDone /\ Returned /\ result.wrapped
    /\ \E i, j \in DOMAIN LinesOf(result.text) :
          /\ Len(Split(LinesOf(result.text)[i])) >= 2
          /\ LineWidth(LinesOf(result.text)[i], result.font) <= result.max_width
          /\ Len(Split(LinesOf(result.text)[j])) = 1
          /\ LineWidth(LinesOf(result.text)[j], result.font) > result.max_width

\* The longest text compared with the one of a call.
MaxChars == 80

\* C4: with no font_size supplied and the image height fixed, the size chosen
\* never grows with the length of the text: no longer text gets a larger size
\* and no shorter text a smaller one.
C4_SizeNonIncreasing ==
    (TextDone /\ Returned /\ call.font_size = None) =>
        \A n \in 0..MaxChars :
            /\ (n >= StrLen(call.text)) =>
                   DynamicFontSize(call.image.height, n) <= result.font_size
            /\ (n <= StrLen(call.text)) =>
                   DynamicFontSize(call.image.height, n) >= result.font_size

\* A text of more than 30 characters on a 720-row image got a size smaller
\* than a text of 25, which is smaller than that of a text of 20.
C4_Witness ==
    /\ TextDone /\ Returned /\ call.font_size = None
    /\ call.image.height = 720 /\ StrLen(call.text) > 30
    /\ result.font_size < DynamicFontSize(720, 25)
    /\ DynamicFontSize(720, 25) < DynamicFontSize(720, 20)

InUnitSquare(ratios) ==
    \A k \in 1..2 : 0 <= ratios[k].n /\ ratios[k].n <= ratios[k].d

\* C5: for an anchor in [0,1] x [0,1] the origin of the text block is at
\* least 10 and at most dimension - extent - 10 on each axis, and exactly 10
\* on an axis too small for both; the call returns.
C5_OriginClamped ==
    (TextDone /\ call.image.ok /\ InUnitSquare(PosRatiosOf(call))) =>
        /\ Returned
        /\ IF call.image.width >= result.box.w + 20
           THEN 10 <= result.x /\ result.x <= call.image.width - result.box.w - 10
           ELSE result.x = 10
        /\ IF call.image.height >= result.box.h + 20
           THEN 10 <= result.y /\ result.y <= call.image.height - result.box.h - 10
           ELSE result.y = 10

\* A block wider than the canvas, anchored at (1, 1): x is 10, y is pulled
\* back to height - block height - 10.
C5_Witness ==
    /\ TextDone /\ Returned /\ InUnitSquare(PosRatiosOf(call))
    /\ call.image.width < result.box.w + 20 /\ result.x = 10
    /\ call.image.height >= result.box.h + 20
    /\ result.y0 > call.image.height - result.box.h - 10
    /\ result.y = call.image.height - result.box.h - 10

InUnitInterval(r) == 0 <= r.n /\ r.n <= r.d

\* C6: with opacity in [0,1] the alpha written grows (weakly) from one band
\* row to the next for "bottom" and falls (weakly) for any other position;
\* consecutive rows suffice, the order being transitive.
C6_AlphaMonotone ==
    (GradientDone /\ call.image.ok /\ InUnitInterval(call.opacity)) =>
        \A i \in 1..(Len(result.rows) - 1) :
            IF call.position = "bottom"
            THEN result.rows[i].alpha <= result.rows[i + 1].alpha
            ELSE result.rows[i].alpha >= result.rows[i + 1].alpha

\* A band of 251 rows at the bottom of a 720-row image, its last row more
\* opaque than its first.
C6_Witness ==
    /\ GradientDone /\ Returned /\ call.position = "bottom"
    /\ InUnitInterval(call.opacity) /\ Len(result.rows) = 251
    /\ result.rows[1].alpha < result.rows[251].alpha

\* C7: _get_font raises for no preset identifier and no size; it returns a
\* font, and the built-in default font when every load it tried failed.
C7_FontResolved ==
    (TextDone /\ call.image.ok) =>
        /\ result.error # "FontError"
        /\ result.font # NoFont
        /\ (/\ result.loads # <<>>
            /\ \A i \in DOMAIN result.loads : ~result.loads[i].ok)
               => result.font = DefaultFont

\* An unknown preset and a negative size on a server without DejaVu: every
\* load failed and the default font came back.
C7_Witness ==
    /\ TextDone /\ Returned /\ call.font_preset = "comic"
    /\ call.font_size = Some(-5) /\ ~call.fs.dejavu
    /\ Len(result.loads) > 1
    /\ \A i \in DOMAIN result.loads : ~result.loads[i].ok
    /\ result.font = DefaultFont

\* The call with the unknown identifiers replaced by the documented defaults.
Defaulted(a) ==
    [a EXCEPT !.color_preset = IF @ \in DOMAIN COLOR_PRESETS THEN @ ELSE "white_shadow",
              !.position = IF @ \in DOMAIN POSITION_PRESETS THEN @ ELSE "bottom_center"]

\* C8: a color_preset outside COLOR_PRESETS acts as "white_shadow" and a
\* position outside POSITION_PRESETS as bottom_center (0.5, 0.85): the call
\* returns what the same call with those identifiers returns, given the font
\* the call used.
C8_UnknownPresetsDefault ==
    (TextDone /\ call.image.ok /\ Defaulted(call) # call) =>
        /\ Returned
        /\ result.image = add_text(font_cache, Defaulted(call)).image
        /\ result.draws = add_text(font_cache, Defaulted(call)).draws
        /\ (call.color_preset \notin DOMAIN COLOR_PRESETS /\ call.custom_colors = None) =>
               result.draws[Len(result.draws)].fill = <<255, 255, 255>>
        /\ (call.position \notin DOMAIN POSITION_PRESETS /\ call.custom_position = None) =>
               /\ result.x0 = AnchorOrigin(call.image.width, Ratio(1, 2), result.box.w)
               /\ result.y0 = AnchorOrigin(call.image.height, Ratio(85, 100), result.box.h)

\* A call naming an unknown colour preset and an unknown position.
C8_Witness ==
    /\ TextDone /\ Returned
    /\ call.color_preset = "neon" /\ call.position = "middle"
    /\ call.custom_colors = None /\ call.custom_position = None
    /\ result.draws # <<>>

\* C9 as the specification states it: a call on a decodable image never
\* fails, whatever its ratios; out-of-range values are clamped or defaulted.
C9_OutOfRangeNeverFails ==
    (pc = "done" /\ call.image.ok) => Returned

\* C10 as the specification states it: a negative font_size is rejected,
\* so no font is loaded and nothing is drawn with it.
C10_NegativeSizeRejected ==
    (/\ TextDone /\ call.image.ok
     /\ call.font_size # None /\ call.font_size[1] < 0) =>
        /\ result.outcome = "raised"
        /\ result.draws = <<>>

\* A call step: add_text or add_gradient_background runs from "idle" to "done".
CallStep ==
    /\ pc = "idle" /\ pc' = "done"
    /\ call'.op \in {"add_text", "add_gradient_background"}

\* The returned image is whole: the input with one more layer, every pass
\* (add_text) or every band row (gradient) on it.
CompleteImage(a, r) ==
    /\ r.image.ok
    /\ Len(r.image.layers) = Len(a.image.layers) + 1
    /\ IF a.op = "add_text"
       THEN /\ r.draws # <<>>
            /\ r.image.layers[Len(r.image.layers)].draws = r.draws
       ELSE /\ Len(r.rows) = Max2(r.gradient_height, 0)
            /\ r.image.layers[Len(r.image.layers)].rows = r.rows

\* C11: every call either returns a complete composited image or raises and
\* returns no image; an input that does not decode raises before anything is
\* drawn and leaves the font cache as it was.
C11_ImageOrError ==
    [][CallStep =>
        /\ \/ result'.outcome = "returned" /\ CompleteImage(call', result')
           \/ result'.outcome = "raised" /\ result'.image = NoImage
        /\ ~call'.image.ok =>
              /\ result'.outcome = "raised" /\ result'.error = "DecodeError"
              /\ font_cache' = font_cache
              /\ call'.op = "add_text" => result'.draws = <<>> /\ result'.loads = <<>>
              /\ call'.op = "add_gradient_background" => result'.rows = <<>>]_vars

\* An undecodable image was given to add_text on a service whose cache
\* already holds a font.
C11_Witness ==
    /\ TextDone /\ ~call.image.ok
    /\ result.outcome = "raised" /\ result.error = "DecodeError"
    /\ font_cache # EmptyCache

\* What a call hands back to its caller.
Output(r) == [outcome |-> r.outcome, error |-> r.error, image |-> r.image]

\* The same call on a service that has served no call yet.
FreshOutput(a) ==
    IF a.op = "add_text" THEN Output(add_text(EmptyCache, a))
    ELSE Output(add_gradient_background(a))

\* C12: with the installed fonts unchanged, a call's output is a function of
\* its arguments alone: whatever the font cache holds from earlier calls, the
\* call returns what it returns on a service with an empty cache.
C12_Deterministic ==
    [][CallStep => Output(result') = FreshOutput(call')]_vars

\* add_text was served a font from the cache, left there by an earlier call.
C12_Witness ==
    /\ TextDone /\ Returned /\ call.fs = SteadyFs
    /\ result.loads = <<>>
    /\ result.font.family = "Impact" /\ result.font.size = 30

\* The font a resolution for (preset, size) gives with the fonts installed.
ResolvedFor(preset, size) == get_font(EmptyCache, SteadyFs, preset, size).font

\* C13: under every interleaving of the lookups, loads and inserts of calls
\* in flight at once, each key of the cache maps to the font resolved for
\* that (preset, size), and each call draws with the font resolved for the
\* (preset, size) it asked for.
C13_CacheNeverCorrupted ==
    /\ \A k \in DOMAIN font_cache : font_cache[k] = ResolvedFor(k[1], k[2])
    /\ \A t \in Threads :
          pc[t] \in {"draw", "done"} =>
              result[t].font = ResolvedFor(call[t].font_preset, FontSizeOf(call[t]))

\* Two calls missed on the same key, both loaded and inserted, and a second
\* key is in the cache.
C13_Witness ==
    /\ pc[1] = "done" /\ pc[2] = "done"
    /\ KeyOf(call[1]) = KeyOf(call[2])
    /\ result[1].loads # <<>> /\ result[2].loads # <<>>
    /\ Cardinality(DOMAIN font_cache) = 2

MultiDone == pc = "done" /\ call.op = "add_multiple_texts"

\* The image with only its first n layers.
FirstLayers(img, n) == [img EXCEPT !.layers = SubSeq(@, 1, n)]

\* C14: add_multiple_texts applies the configurations in list order: pass 1
\* is add_text on the original image, pass i + 1 is add_text on exactly the
\* output of pass i, and the image returned is the output of the last pass
\* (the original image itself for an empty list).
C14_PassesChained ==
    (MultiDone /\ Returned) =>
        LET n == Len(call.texts)
            base == Len(call.image.layers)
            after(i) == IF i = 0 THEN call.image
                        ELSE FirstLayers(result.image, base + i)
        IN  /\ result.passes = n
            /\ Len(result.image.layers) = base + n
            /\ result.image = after(n)
            /\ \A i \in 1..n :
                  LET single == add_text(font_cache,
                                         ConfigCall(after(i - 1), call.texts[i], call.fs))
                  IN  single.outcome = "returned" /\ single.image = after(i)

\* Two different configurations, both anchored at the centre, were applied
\* to a translucent image, the second (wrapped) over the output of the first.
C14_Witness ==
    /\ MultiDone /\ Returned /\ Len(call.texts) = 2
    /\ call.texts[1] # call.texts[2]
    /\ call.image.pat = "translucent"
    /\ Len(result.image.layers) = 2
    /\ result.image.layers[1].text = <<15>>
    /\ result.image.layers[2].text = <<15, -1, 5>>

\* The factor product of the size rule as the fraction <<num, den>> of the
\* base: 8/10 above 20 characters, 7/10 more above 30.
SizeFactor(n) ==
    <<(IF n > 20 THEN 8 ELSE 1) * (IF n > 30 THEN 7 ELSE 1),
      (IF n > 20 THEN 10 ELSE 1) * (IF n > 30 THEN 10 ELSE 1)>>

\* C15 as the specification states it: with no font_size supplied the size
\* requested is round(height * 0.12), times 0.8 above 20 characters, times 0.7
\* more above 30, raised to at least 24 (read generously: any whole number
\* less than one away from that value passes); a supplied size is used as given.
C15_RoundedBase ==
    (TextDone /\ Returned) =>
        IF call.font_size # None THEN result.font_size = call.font_size[1]
        ELSE LET base == (12 * call.image.height + 50) \div 100
                 f    == SizeFactor(StrLen(call.text))
                 num  == base * f[1]
             IN  IF num <= 24 * f[2] THEN result.font_size = 24
                 ELSE /\ result.font_size * f[2] > num - f[2]
                      /\ result.font_size * f[2] < num + f[2]

\* C15: with no font_size supplied the size requested is computed by
\* truncation at every step: base = int(height * 0.12); above 20 characters
\* int(base * 0.8); above 30 characters int(that * 0.7), one less when that *
\* 0.7 is mathematically a whole number the double product falls short of;
\* then raised to at least 24. A supplied size is used as given, and the
\* cache holds the font under (preset, that size).
C15_TruncatedAtEachStep ==
    (TextDone /\ Returned) =>
        /\ <<call.font_preset, result.font_size>> \in DOMAIN font_cache
        /\ IF call.font_size # None THEN result.font_size = call.font_size[1]
           ELSE LET n    == StrLen(call.text)
                    base == (12 * call.image.height) \div 100
                    b20  == IF n > 20 THEN (8 * base) \div 10 ELSE base
                    b30  == (7 * b20) \div 10
                IN  IF n <= 30 THEN result.font_size = Max2(b20, 24)
                    ELSE IF (7 * b20) % 10 # 0
                         THEN result.font_size = Max2(b30, 24)
                         ELSE result.font_size \in {Max2(b30, 24), Max2(b30 - 1, 24)}

\* A 230-pixel-high canvas and a short text: 230 * 0.12 = 27.6 is requested
\* as 27.
C15_Witness ==
    /\ TextDone /\ Returned /\ call.font_size = None
    /\ call.image.height = 230 /\ StrLen(call.text) <= 20
    /\ result.font_size = 27

\* C16 as the specification states it: the candidates are tried in order and
\* the first one that loads, from the fonts directory or from the system, is
\* returned: a successful load is the last load attempted and its font is
\* the one the call uses.
C16_FirstLoadedReturned ==
    (TextDone /\ Returned) =>
        \A i \in DOMAIN result.loads :
            result.loads[i].ok =>
                /\ i = Len(result.loads)
                /\ result.font.family = result.loads[i].family
                /\ result.font.source = result.loads[i].where

\* One add_text call that got as far as asking for its font.
FontCallStep ==
    /\ pc = "idle" /\ pc' = "done"
    /\ call'.op = "add_text" /\ call'.image.ok

\* C17: font loading for a key (preset, size) happens once per service: a
\* call whose key the cache does not hold yet attempts loads and stores the
\* font it got under that key; a call whose key the cache holds attempts no
\* load, uses the cached font and leaves the cache as it was.
C17_LoadedOncePerKey ==
    [][FontCallStep =>
        LET key == <<call'.font_preset, result'.font_size>>
        IN  IF key \in DOMAIN font_cache
            THEN /\ result'.loads = <<>>
                 /\ result'.font = font_cache[key]
                 /\ font_cache' = font_cache
            ELSE /\ result'.loads # <<>>
                 /\ DOMAIN font_cache' = DOMAIN font_cache \cup {key}
                 /\ font_cache'[key] = result'.font
                 /\ \A k \in DOMAIN font_cache : font_cache'[k] = font_cache[k]]_vars

\* A later call on its key's cached font: it used the Arial Black system font
\* although, when it ran, no candidate could be loaded from anywhere.
C17_Witness ==
    /\ TextDone /\ Returned /\ result.loads = <<>>
    /\ <<call.font_preset, result.font_size>> \in DOMAIN font_cache
    /\ result.font = [family |-> "Arial Black", source |-> "system", size |-> 24]
    /\ call.fs = [valid |-> {}, corrupt |-> {}, system |-> {}, dejavu |-> FALSE]

\* C18: the font cache only grows: no step of any call removes a key, and a
\* key once inserted keeps the font bound to it, also when a second call
\* that missed on the same key inserts it again.
C18_CacheOnlyGrows ==
    [][\A k \in DOMAIN font_cache :
          k \in DOMAIN font_cache' /\ font_cache'[k] = font_cache[k]]_vars

\* The cache holds two keys, and one of them has been inserted twice: both
\* calls loaded for it, the first has finished and the second has just
\* inserted.
C18_Witness ==
    /\ Cardinality(DOMAIN font_cache) = 2
    /\ pc[1] = "done" /\ pc[2] = "draw"
    /\ KeyOf(call[1]) = KeyOf(call[2])
    /\ result[1].loads # <<>> /\ result[2].loads # <<>>
    /\ font_cache[KeyOf(call[2])] = result[2].font

\* A line followed by a space and the first word of the next line.
WithNextWord(lines, i) == lines[i] \o <<0>> \o <<Split(lines[i + 1])[1]>>

\* C19: _wrap_text is greedy. Its lines hold the words of the text in order,
\* joined by single spaces; a line of several words is at most max_width
\* wide (each of its words was appended because the line with it fitted); and
\* for every two consecutive lines the earlier line followed by a space and
\* the first word of the later line is wider than max_width.
C19_GreedyWrap ==
    (TextDone /\ Returned /\ result.wrapped) =>
        LET lines == LinesOf(result.text)
        IN  /\ Split(result.text) = Split(call.text)
            /\ \A i \in DOMAIN lines :
                  /\ lines[i] # <<>>
                  /\ lines[i] = JoinWords(Split(lines[i]))
                  /\ Len(Split(lines[i])) >= 2 =>
                        LineWidth(lines[i], result.font) <= result.max_width
            /\ \A i \in 1..(Len(lines) - 1) :
                  LineWidth(WithNextWord(lines, i), result.font) > result.max_width

\* A line of two words was closed because a third word, which fits on a line
\* by itself, did not fit after them.
C19_Witness ==
    /\ TextDone /\ Returned /\ result.wrapped
    /\ \E i \in 1..(Len(LinesOf(result.text)) - 1) :
          /\ Len(Split(LinesOf(result.text)[i])) >= 2
          /\ LineWidth(<<Split(LinesOf(result.text)[i + 1])[1]>>, result.font)
                 <= result.max_width
          /\ LineWidth(WithNextWord(LinesOf(result.text), i), result.font)
                 > result.max_width

\* The measured width of the call's text as given, in the font the call used.
FullWidth == TextBBox(call.text, result.font).w

\* C20: a text whose measured width is at most max_width (the whole pixels
\* of max_width_ratio * width; equally, at most the product itself) is not
\* wrapped: it is drawn as given, every draw a single-line draw, its box one
\* line high; and a text is wrapped only when its width exceeds max_width.
C20_FittingTextNotWrapped ==
    (TextDone /\ Returned) =>
        LET r == call.max_width_ratio
        IN  /\ (\/ FullWidth <= result.max_width
                \/ FullWidth * r.d <= r.n * call.image.width) =>
                  /\ ~result.wrapped
                  /\ result.text = call.text
                  /\ result.box = TextBBox(call.text, result.font)
                  /\ result.box.h <= LineH(result.font)
                  /\ \A i \in DOMAIN result.draws : ~result.draws[i].multiline
            /\ result.wrapped =>
                  /\ FullWidth > result.max_width
                  /\ FullWidth * r.d > r.n * call.image.width

\* Two words whose width, 165, is exactly max_width: drawn on one line.
C20_Witness ==
    /\ TextDone /\ Returned /\ ~result.wrapped
    /\ call.text = <<5, 0, 5>> /\ result.text = <<5, 0, 5>>
    /\ FullWidth = 165 /\ result.max_width = 165

\* C21 as the specification states it: the text box add_text places lies
\* inside the canvas with a margin of 10 pixels on all four sides, whatever
\* the text, the size, the canvas and the anchor.
C21_BoxInsideMargins ==
    (TextDone /\ Returned) =>
        /\ result.x >= 10 /\ result.y >= 10
        /\ result.x + result.box.w <= call.image.width - 10
        /\ result.y + result.box.h <= call.image.height - 10

\* The place of a pass in the order shadow, stroke, fill.
PassRank(pass) == IF pass = "shadow" THEN 1 ELSE IF pass = "stroke" THEN 2 ELSE 3

\* The text layer a returned add_text call put on the image.
TextLayer == result.image.layers[Len(result.image.layers)]

\* The overlay pixels examined: the corners, the centre and the edge
\* midpoints of the text box, and the origin of the first draw, where they
\* fall on the canvas.
BoxProbes ==
    LET xs == {result.x, result.x + result.box.w \div 2, result.x + result.box.w - 1}
        ys == {result.y, result.y + result.box.h \div 2, result.y + result.box.h - 1}
    IN  {p \in (xs \X ys) \cup {<<result.draws[1].x, result.draws[1].y>>} :
            /\ 0 <= p[1] /\ p[1] < call.image.width
            /\ 0 <= p[2] /\ p[2] < call.image.height}

\* C22: the draws of one add_text call come in the order shadow, stroke
\* offsets, fill; the fill draw is the single last draw; the layer composited
\* onto the base holds all of them; and wherever the fill draw inks a pixel
\* the overlay pixel is the fill colour at alpha 255, whatever shadow or
\* stroke drew there before.
C22_ShadowStrokeFill ==
    (TextDone /\ Returned) =>
        LET d == result.draws
            n == Len(d)
        IN  /\ n >= 1 /\ d[n].pass = "fill"
            /\ \A i \in 1..(n - 1) :
                  d[i].pass # "fill" /\ PassRank(d[i].pass) <= PassRank(d[i + 1].pass)
            /\ TextLayer.draws = d
            /\ \A p \in BoxProbes :
                  TextInk(result.text, result.font, d[n].multiline, d[n].x, d[n].y,
                          p[1], p[2])
                  => LayerPixel(TextLayer, p[1], p[2])
                         = hex_to_rgb(ColorsOf(call).fill) \o <<255>>

\* Shadow, stroke and fill all ink the pixel at the shadow's origin, which
\* ends up white and opaque.
C22_Witness ==
    /\ TextDone /\ Returned
    /\ Len(result.draws) >= 3
    /\ result.draws[1].pass = "shadow" /\ result.draws[2].pass = "stroke"
    /\ LET s == result.draws[1]
           f == result.draws[Len(result.draws)]
       IN  /\ TextInk(result.text, result.font, s.multiline, s.x, s.y, s.x, s.y)
           /\ TextInk(result.text, result.font, f.multiline, f.x, f.y, s.x, s.y)
           /\ s.x < call.image.width /\ s.y < call.image.height
           /\ LayerPixel(TextLayer, s.x, s.y) = <<255, 255, 255, 255>>

\* The stroke draws of the call at offset (dx, dy) from the text origin.
StrokeDrawsAt(dx, dy) ==
    {i \in DOMAIN result.draws :
        /\ result.draws[i].pass = "stroke"
        /\ result.draws[i].x = result.x + dx
        /\ result.draws[i].y = result.y + dy}

\* C23: for stroke_width w > 0 the stroke pass draws the text once at every
\* offset (dx, dy) with dx*dx + dy*dy <= w*w and at no other offset: every
\* stroke draw lies within w of the origin on both axes, and inside that
\* square the number of draws at an offset is 1 in the disc and 0 outside it.
C23_StrokeDisc ==
    (TextDone /\ Returned /\ call.stroke_width > 0) =>
        LET w == call.stroke_width
        IN  /\ \A i \in DOMAIN result.draws :
                  result.draws[i].pass = "stroke" =>
                      /\ result.draws[i].x - result.x \in (-w)..w
                      /\ result.draws[i].y - result.y \in (-w)..w
            /\ \A dx \in (-w)..w, dy \in (-w)..w :
                  Cardinality(StrokeDrawsAt(dx, dy))
                      = IF dx * dx + dy * dy <= w * w THEN 1 ELSE 0
            /\ StrokeDrawsAt(w, w) = {}
            /\ StrokeDrawsAt(0, 0) # {} /\ StrokeDrawsAt(w, 0) # {}
            /\ StrokeDrawsAt(0, -w) # {}

\* A stroke of width 2: thirteen stroke draws, one at (1, 1), none at (2, 1).
C23_Witness ==
    /\ TextDone /\ Returned /\ call.stroke_width = 2
    /\ Cardinality({i \in DOMAIN result.draws : result.draws[i].pass = "stroke"}) = 13
    /\ StrokeDrawsAt(1, 1) # {} /\ StrokeDrawsAt(2, 1) = {}

\* The draws of the call that belong to one pass.
DrawsOf(pass) == {i \in DOMAIN result.draws : result.draws[i].pass = pass}

\* C24: a call on a decodable image returns whatever shadow_offset and
\* stroke_width are; it has no shadow draw exactly when shadow_offset <= 0
\* and no stroke draw exactly when stroke_width <= 0; it has one fill draw,
\* at the origin; and for shadow_offset > 0 it has one shadow draw, at the
\* origin moved by shadow_offset on both axes, in the shadow colour with
\* alpha 128.
C24_PassesSkipped ==
    (TextDone /\ call.image.ok) =>
        /\ Returned
        /\ (DrawsOf("shadow") = {}) <=> (call.shadow_offset <= 0)
        /\ (DrawsOf("stroke") = {}) <=> (call.stroke_width <= 0)
        /\ Cardinality(DrawsOf("fill")) = 1
        /\ \A i \in DrawsOf("fill") :
              result.draws[i].x = result.x /\ result.draws[i].y = result.y
        /\ call.shadow_offset > 0 =>
              /\ Cardinality(DrawsOf("shadow")) = 1
              /\ \A i \in DrawsOf("shadow") :
                    /\ result.draws[i].x = result.x + call.shadow_offset
                    /\ result.draws[i].y = result.y + call.shadow_offset
                    /\ result.draws[i].fill = hex_to_rgb(ColorsOf(call).shadow) \o <<128>>

\* A negative shadow offset and a zero stroke width: the fill is the only
\* draw.
C24_Witness ==
    /\ TextDone /\ Returned
    /\ call.shadow_offset = -1 /\ call.stroke_width = 0
    /\ Len(result.draws) = 1 /\ result.draws[1].pass = "fill"

\* v is a nearest integer to num / den (den > 0).
Nearest(v, num, den) == 2 * Abs(v * den - num) <= den

\* v is int(num / den) as doubles compute it (den > 0): the quotient
\* truncated toward zero, or, when the quotient is a whole number the double
\* result can fall short of, possibly the whole number next to it toward zero.
NearTrunc(v, num, den) ==
    LET t == TruncDiv(num, den)
    IN  IF num % den # 0 THEN v = t
        ELSE v \in {t, IF t > 0 THEN t - 1 ELSE IF t < 0 THEN t + 1 ELSE t}

\* The gradient layer a returned add_gradient_background call put on the image.
GradientLayer == result.image.layers[Len(result.image.layers)]

\* The part of band row y (from 0) of a band g rows high that scales the
\* alpha: y for "bottom", g - y for any other position.
BandPart(y, g) == IF call.position = "bottom" THEN y ELSE g - y

\* C25 as the specification states it (for opacity and height_ratio in
\* [0, 1]): the band height is round(height * height_ratio) and the alpha of
\* band row y is round(255 * opacity * y / band_height) for "bottom" and
\* round(255 * opacity * (1 - y / band_height)) for "top".
C25_RoundedAlpha ==
    (GradientDone /\ Returned /\ InUnitInterval(call.opacity)
        /\ InUnitInterval(call.height_ratio)) =>
        LET g == result.gradient_height
        IN  /\ Nearest(g, call.image.height * call.height_ratio.n, call.height_ratio.d)
            /\ \A i \in DOMAIN result.rows :
                  Nearest(result.rows[i].alpha,
                          255 * call.opacity.n * BandPart(i - 1, g), call.opacity.d * g)

\* C25: the band height is int(height * height_ratio) and band row y gets
\* alpha int(255 * opacity * (y / band_height)) for "bottom" and
\* int(255 * opacity * (1 - y / band_height)) for any other position, both
\* truncated toward zero; the band has one row per y in 0..band_height - 1,
\* at image row height - band_height + y for "bottom" and y otherwise; and
\* every pixel of a row that no later band row overwrote is black with that
\* alpha, clipped to 0..255.
C25_TruncatedAlpha ==
    (GradientDone /\ Returned) =>
        LET g == result.gradient_height
            h == call.image.height
        IN  /\ NearTrunc(g, h * call.height_ratio.n, call.height_ratio.d)
            /\ Len(result.rows) = Max2(g, 0)
            /\ GradientLayer.rows = result.rows
            /\ \A i \in DOMAIN result.rows :
                  LET r == result.rows[i]
                  IN  /\ r.y = i - 1
                      /\ r.actual_y = IF call.position = "bottom" THEN h - g + r.y ELSE r.y
                      /\ NearTrunc(r.alpha, 255 * call.opacity.n * BandPart(r.y, g),
                                   call.opacity.d * g)
                      /\ (\A j \in DOMAIN result.rows : j > i => result.rows[j].row # r.row)
                         => \A x \in {0, call.image.width - 1} :
                               LayerPixel(GradientLayer, x, r.row)
                                   = <<0, 0, 0, Clip8(r.alpha)>>

\* Band row 1 of a 12-row band at opacity 0.5: 255 * 0.5 / 12 = 10.625 is
\* written as 10.
C25_Witness ==
    /\ GradientDone /\ Returned /\ call.position = "bottom"
    /\ call.opacity = Ratio(1, 2) /\ result.gradient_height = 12
    /\ result.rows[2].alpha = 10
    /\ LayerPixel(GradientLayer, 0, result.rows[2].row) = <<0, 0, 0, 10>>

\* The gradient call of the /text-overlay endpoint on an image 720 rows tall.
EndpointGradient ==
    /\ GradientDone /\ Returned
    /\ call.position = "bottom" /\ call.opacity = Ratio(1, 2)
    /\ call.height_ratio = Ratio(35, 100) /\ call.image.height = 720

\* The rows of the image that the call's band wrote.
BandRows == {result.rows[i].row : i \in DOMAIN result.rows}

\* The alpha the band wrote at image row `row`.
AlphaAtRow(row) ==
    LET i == CHOOSE j \in DOMAIN result.rows : result.rows[j].row = row
    IN  result.rows[i].alpha

\* C26 as the specification states it: the band is 252 rows high, covers
\* rows 468 to 719, and has alpha 127 at row 719 and alpha 0 at row 468.
C26_Band252 ==
    EndpointGradient =>
        /\ result.gradient_height = 252
        /\ BandRows = 468..719
        /\ AlphaAtRow(719) = 127
        /\ 468 \in BandRows => AlphaAtRow(468) = 0

\* C26: with position "bottom", opacity 0.5 and height_ratio 0.35 on an
\* image 720 rows tall the band is 251 rows high (720 * 0.35 falls just below
\* 252 as a double), covers exactly rows 469 to 719, has alpha 126 at row 719
\* and alpha 0 at row 469; row 468 is not written and stays transparent.
C26_Band251 ==
    EndpointGradient =>
        /\ result.gradient_height = 251
        /\ BandRows = 469..719
        /\ AlphaAtRow(719) = 126
        /\ AlphaAtRow(469) = 0
        /\ LayerPixel(GradientLayer, 0, 719) = <<0, 0, 0, 126>>
        /\ LayerPixel(GradientLayer, 0, 468) = <<0, 0, 0, 0>>

\* The endpoint's gradient call on a 1280 x 720 image has returned with a
\* band that starts at row 469.
C26_Witness ==
    /\ EndpointGradient /\ call.image.width = 1280
    /\ result.rows[1].row = 469 /\ result.rows[251].row = 719

EndpointDone == pc = "done" /\ call.op = "endpoint"

\* The left ends of the first three text lines of the endpoint's add_text.
LineStarts ==
    {<<result.overlay.x,
       result.overlay.y + k * (LineH(result.overlay.font) + LineSpacing)>> : k \in 0..2}

\* Whether the fill draw of the endpoint's add_text inks the pixel p.
FillInks(p) ==
    LET t == result.overlay
        f == t.draws[Len(t.draws)]
    IN  /\ p[2] < call.image.height
        /\ TextInk(t.text, t.font, f.multiline, f.x, f.y, p[1], p[2])

\* C27: in an endpoint request that makes the gradient call, the gradient call
\* has returned before add_text runs and add_text works on its output: the
\* response image is the gradient's output with the text layer on top, a
\* corner pixel of the band the text does not reach is the gradient's, and
\* a pixel the fill inks at the left end of a line is the fill colour; when
\* the gradient call raised, add_text was not called, and a /generate
\* request without text to overlay makes neither call and responds with its
\* image. add_text gets the request's text in upper case. Inside add_text the wrapped lines are
\* measured with the font that was resolved, every draw draws the wrapped
\* text, and the layer flattened into the response holds every draw, the
\* fill last.
C27_StepOrder ==
    EndpointDone =>
        LET t == result.overlay
            g == result.gradient
            n == Len(result.image.layers)
            h == call.image.height
            w == EndpointOverlays(call)
        IN  /\ (EndpointWantsGradient(call) /\ Returned) =>
                  /\ g.outcome = "returned" /\ n = 2
                  /\ result.image.layers[1].kind = "gradient"
                  /\ FirstLayers(result.image, 1) = g.image
                  /\ Pixel(result.image, 0, h - 1) = Pixel(g.image, 0, h - 1)
                  /\ Pixel(g.image, 0, h - 1) # Pixel(call.image, 0, h - 1)
                  /\ \A p \in LineStarts :
                        FillInks(p) => Pixel(result.image, p[1], p[2])
                                           = hex_to_rgb(COLOR_PRESETS[call.color_preset].fill)
            /\ (~EndpointWantsGradient(call) /\ w /\ Returned) =>
                  g.outcome = "skipped" /\ n = 1
            /\ g.outcome = "raised" =>
                  ~Returned /\ t = TextSkipped /\ result.cache = font_cache
            /\ ~w => /\ Returned /\ g.outcome = "skipped" /\ t = TextSkipped
                      /\ result.image = call.image /\ result.cache = font_cache
            /\ (w /\ Returned) =>
                  /\ t.font # NoFont
                  /\ Split(t.text) = Split(upper(call.text))
                  /\ t.wrapped =>
                        \A i \in DOMAIN LinesOf(t.text) :
                            Len(Split(LinesOf(t.text)[i])) >= 2 =>
                                LineWidth(LinesOf(t.text)[i], t.font) <= t.max_width
                  /\ result.image.layers[n].kind = "text"
                  /\ result.image.layers[n].text = t.text
                  /\ result.image.layers[n].font = t.font
                  /\ result.image.layers[n].draws = t.draws
                  /\ \A i \in DOMAIN t.draws : t.draws[i].multiline = HasNewline(t.text)
                  /\ t.draws[Len(t.draws)].pass = "fill"

\* A /text-overlay request with the gradient and a text that upper() made
\* longer and that had to be wrapped: the response holds the gradient layer under the text layer.
C27_Witness ==
    /\ EndpointDone /\ Returned /\ call.route = "text-overlay" /\ call.add_gradient
    /\ result.overlay.wrapped /\ \E i \in DOMAIN call.text : call.text[i].extra > 0
    /\ \E p \in LineStarts : FillInks(p)
    /\ Len(result.image.layers) = 2
    /\ result.image.layers[1].kind = "gradient"
    /\ result.image.layers[2].kind = "text"

\* The words of a sequence of lines, line after line.
RECURSIVE WordsOfLines(_)
WordsOfLines(lines) ==
    IF lines = <<>> THEN <<>> ELSE Split(Head(lines)) \o WordsOfLines(Tail(lines))

\* C28: the words of the lines _wrap_text returns, taken line after line,
\* are the whitespace-separated words of its input in their order (none
\* dropped, repeated or split), and none of the lines is empty or blank.
C28_WordsPreserved ==
    (TextDone /\ Returned /\ result.wrapped) =>
        LET lines == LinesOf(result.text)
        IN  /\ WordsOfLines(lines) = Split(call.text)
            /\ \A i \in DOMAIN lines : StrLen(lines[i]) > 0 /\ Split(lines[i]) # <<>>
            /\ Len(lines) <= Len(Split(call.text))

\* The first word alone is wider than max_width: it is the first line, and
\* the other words follow on later lines.
C28_Witness ==
    /\ TextDone /\ Returned /\ result.wrapped
    /\ Len(Split(call.text)) >= 2
    /\ LineWidth(<<Split(call.text)[1]>>, result.font) > result.max_width
    /\ LinesOf(result.text)[1] = <<Split(call.text)[1]>>
    /\ Len(LinesOf(result.text)) >= 2

\* The rows examined: a lattice over the height and the rows on either side
\* of both band edges.
BandProbeRows ==
    LET h == call.image.height
        g == result.gradient_height
    IN  (ProbeAxis(h) \cup {g - 1, g, h - g - 1, h - g}) \cap (0..(h - 1))

\* Whether image row y lies outside the band of the call.
OutsideBand(y) ==
    \/ result.gradient_height <= 0
    \/ IF call.position = "bottom"
       THEN y < call.image.height - result.gradient_height
       ELSE y >= result.gradient_height

\* C29: add_gradient_background leaves every pixel outside the band as it
\* was: for "bottom" the rows above height - band_height, for "top" the rows
\* from band_height on, and every row when the band height is 0 or less.
C29_OnlyBandChanges ==
    (GradientDone /\ Returned) =>
        \A y \in BandProbeRows : \A x \in {0, call.image.width - 1} :
            OutsideBand(y) =>
                Pixel(result.image, x, y) = Pixel(call.image, x, y)

\* A bottom band that is part of the image: the last row has changed, the
\* row just above the band has not.
C29_Witness ==
    /\ GradientDone /\ Returned /\ call.position = "bottom"
    /\ result.gradient_height > 0
    /\ result.gradient_height < call.image.height
    /\ LET h == call.image.height
           g == result.gradient_height
       IN  /\ Pixel(result.image, 0, h - 1) # Pixel(call.image, 0, h - 1)
           /\ Pixel(result.image, 0, h - g - 1) = Pixel(call.image, 0, h - g - 1)

\* Whether the row of task t's record is in face_models, and that row.
HasRow(t) ==
    /\ result[t].model_id # None
    /\ \E i \in DOMAIN supabase.face_models :
           supabase.face_models[i].id = result[t].model_id[1]

RowOf(t) ==
    supabase.face_models[CHOOSE i \in DOMAIN supabase.face_models :
                             supabase.face_models[i].id = result[t].model_id[1]]

\* C30 as the specification states it: once start_training has returned or
\* raised, the record it created is "completed" with its lora_url set exactly
\* when the call returned, is "failed" when the call raised from the training
\* step, and is not left in "training".
C30_RecordSettled ==
    \A t \in Tasks :
        (pc[t] = "done" /\ HasRow(t)) =>
            /\ (RowOf(t).training_status = "completed" /\ RowOf(t).lora_url # None)
                   <=> (result[t].outcome = "returned")
            /\ (result[t].outcome = "raised"
                    /\ result[t].error \in {"TrainingError", "KeyError"})
                   => RowOf(t).training_status = "failed"
            /\ RowOf(t).training_status # "training"

====
